---- MODULE Spec2Model ----
(***************************************************************************)
(* A model of the RTCM3 decoder of cssrlib (src/src/cssrlib/rtcm.py and    *)
(* src/src/cssrlib/gnss.py).                                               *)
(*                                                                         *)
(*  - SpecSSR   : the correction state lc[inet] kept by the SSR decoders   *)
(*                decode_cssr_orb / clk / comb / cbias / pbias / ura /hclk *)
(*  - SpecFrame : rtcm.checksum over a framed byte buffer (CRC-24/LTE-A)   *)
(*  - SpecSat   : prn2sat / sat2prn of gnss.py                             *)
(*  - SpecMsm   : the lock-time cache and the lli output of decode_msm     *)
(*  - SpecRange : the pseudorange and carrier phase of one MSM cell        *)
(*  - SpecWeek  : rtcm.adjustweek                                          *)
(*  - SpecDecode: the dispatch of rtcm.decode and the tables of rtcmUtil   *)
(*  - SpecTrop  : rtcm.decode_ssr_trop                                     *)
(*  - SpecPbias : rtcme.encode_cssr_pbias after rtcm.decode_cssr_pbias     *)
(*  - SpecFrameLong: set_sync / set_len / set_checksum, then rtcm.checksum *)
(*  - SpecMsmBits  : the bits decode_msm reads by message variant          *)
(*  - SpecSatId    : rtcme.encode_sat, then rtcm.decode_sat                *)
(*  - SpecEph      : decode_glo_eph / decode_bds_eph / decode_irn_eph      *)
(*  - SpecIntegSsr : encode_integrity_ssr, then decode_integrity_ssr       *)
(*  - SpecInteg    : rtcm.decode_integrity_min                             *)
(*  - SpecIval     : rtcme.ival                                            *)
(***************************************************************************)
EXTENDS Integers, Sequences, FiniteSets, TLC

VARIABLES
    lc,        \* self.lc[inet]: the correction state of each network id
    time,      \* self.time: the epoch of the header decoded last
    mi,        \* self.mi: the multi-message flag of the header decoded last
    inet,      \* self.inet
    sat_n,     \* self.sat_n: the satellites of the orbit messages of one epoch
    sat_b,     \* self.sat_b: the satellites of the bias messages of one epoch
    dclk_n,    \* len(self.dclk_n): the size of the clock work array
    iyaw,      \* self.iyaw: the yaw flag of the phase-bias header decoded last
    iexpb,     \* self.iexpb: the extended phase-bias property id
    udi,       \* the kinds for which self.udi[kind] was assigned
    iodssr_c,  \* the kinds for which self.iodssr_c[kind] was assigned
    call,      \* the decoder called last, its arguments and how it ended
    ncalls,    \* the number of decoder calls made so far
    buf,       \* the byte buffer msg handed to the framing functions
    fk,        \* the offset k of the frame in the buffer
    enc_len,   \* rtcme.len, set by set_len
    dec_len,   \* rtcm.len, set by checksum
    dec_dlen,  \* rtcm.dlen, set by checksum
    acc,       \* what checksum returned last ("none" before the first call)
    maxl,      \* the maxlen argument of the checksum call made last
    flipped,   \* the bit of the frame flipped after it was accepted (0: none)
    pcF,       \* the step the framing scenario is at
    in_sys,    \* the constellation handed to prn2sat
    in_prn,    \* the PRN handed to prn2sat
    out_sat,   \* what prn2sat returned
    out_prn,   \* what sat2prn returned for out_sat, <<sys, prn>>
    raised,    \* whether prn2sat ended in an exception
    pcS,       \* the step the satellite-number scenario is at
    lock,      \* self.lock: the lock-time counters of the MSM decoded last, by satellite
    sig_n,     \* self.sig_n: the signals of each satellite of the MSM decoded last
    obs,       \* the observation block decode_msm returned last
    nmsm,      \* the number of MSM messages decoded so far
    arg,       \* the arguments of the function called on its own
    ret,       \* what that function returned
    pcP,       \* the step the call is at
    lct,       \* the tropospheric attributes of self.lc[inet], by grid id
    ntrop,     \* the number of tropospheric messages decoded so far
    integ,     \* self.integ: the integrity tables, each by constellation
    ninteg,    \* the number of integrity messages decoded so far
    integ_msg  \* the integrity message decoded last and how the call ended

ssrVars == <<lc, time, mi, inet, sat_n, sat_b, dclk_n, iyaw, iexpb, udi,
             iodssr_c, call, ncalls>>

frameVars == <<buf, fk, enc_len, dec_len, dec_dlen, acc, maxl, flipped, pcF>>

satVars == <<in_sys, in_prn, out_sat, out_prn, raised, pcS>>

msmVars == <<lock, sig_n, obs, nmsm>>

fnVars == <<arg, ret, pcP>>

tropVars == <<lct, ntrop>>

integVars == <<integ, ninteg, integ_msg>>

\* what the correction decoders leave alone
notSSR == <<integVars, tropVars, frameVars, satVars, msmVars, fnVars>>

\* what the framing functions leave alone
notFrame == <<integVars, tropVars, ssrVars, satVars, msmVars, fnVars>>

\* what prn2sat and sat2prn leave alone
notSat == <<integVars, tropVars, ssrVars, frameVars, msmVars, fnVars>>

\* what decode_msm leaves alone
notMsm == <<integVars, tropVars, ssrVars, frameVars, satVars, fnVars>>

\* what a function called on its own leaves alone
notFn == <<ssrVars, frameVars, satVars, msmVars, tropVars, integVars>>

vars == <<ssrVars, frameVars, satVars, msmVars, fnVars, tropVars, integVars>>

----------------------------------------------------------------------------
(* Bounds of the model *)

MaxCalls == 2

\* The network ids, satellites, epochs and signals of the messages fed in.
\* Epoch 0 is gtime_t(), the epoch a fresh local_corr caches for every kind.
Nets == {0, 1}
Sats == {1, 2}
Times == {1, 2}
Sigs == {"L1C"}

\* The satellite part of a message: the satellites it lists (nsat = Len(sats)),
\* the number nok of satellite records the buffer holds in full (nok < nsat: the
\* buffer ends right after the satellite id of record nok+1 and the read that
\* follows raises), and the multi-message flag of its header.
Bodies ==
    { [sats |-> <<1>>, nok |-> 1, mi |-> TRUE],
      [sats |-> <<2>>, nok |-> 1, mi |-> FALSE],
      [sats |-> <<1, 2>>, nok |-> 1, mi |-> FALSE] }

\* A bias message adds the signals of each satellite record and whether its
\* signal count exceeds the signal table (nsig > self.ssig2rsig(sys)).
BiasBodies ==
    { [sats |-> b.sats, nok |-> b.nok, mi |-> b.mi, sigs |-> Sigs, over |-> FALSE]
        : b \in Bodies }
    \cup { [sats |-> <<1, 2>>, nok |-> 2, mi |-> FALSE, sigs |-> Sigs, over |-> TRUE] }

\* The header variants of a phase-bias message: sCSSR.PBIAS (1265-1270, IGS SSR)
\* has no yaw flag; sRTCM.SSR_PBIAS (85-89) carries the flag and a property id.
PbiasHeads ==
    { [subtype |-> "PBIAS", iyaw |-> TRUE, iexpb |-> 0],
      [subtype |-> "SSR_PBIAS", iyaw |-> TRUE, iexpb |-> 1],
      [subtype |-> "SSR_PBIAS", iyaw |-> FALSE, iexpb |-> 1] }

\* Framing: the payload lengths run from MinLen-1 (a frame checksum rejects as
\* too short) to MaxPayload, the frame starts at offset 0..MaxOffset of the
\* buffer, and the payload bytes are generated from a seed 0..MaxSeed.
MinLen == 6
MaxPayload == 7
MaxOffset == 1
MaxSeed == 1

\* Satellite numbers: prn2sat is fed the PRNs 0..MaxPrn of each constellation
MaxPrn == 203

\* MSM: at most MaxMsm messages are decoded, each with at most MaxCells cells;
\* the lock-time counters, PRNs and signal ids on the wire
MaxMsm == 2
MaxCells == 2
LockVals == {0, 2, 50}
MsmPrns == {<<3>>, <<3, 4>>}
MsmSigs == {<<2>>, <<2, 3>>}

\* Troposphere: at most MaxTrop messages are decoded
MaxTrop == 2

\* the attributes of local_corr that decode_ssr_trop assigns
TropAttrs == {"ct", "maph", "mapw", "dth", "dtw", "ng", "ofst"}

\* ival: the values converted are up to MaxHalf half units of the scale
MaxHalf == 20

\* Integrity: at most MaxInteg minimum integrity messages are decoded
MaxInteg == 2

\* the tables of Integrity that decode_integrity_min assigns
IntegTables == {"iod_sys", "sts", "mst", "src", "freq", "iod_freq", "ists", "msts"}

\* sCType: the correction kinds that index t0s, cstat, udi and iodssr_c
Kinds == {"ORBIT", "CLOCK", "CBIAS", "PBIAS", "HCLOCK", "URA"}

----------------------------------------------------------------------------
(* Helpers on dictionaries *)

EmptyMap == [x \in {} |-> 0]

Put(m, S, v) == [x \in (DOMAIN m) \cup S |-> IF x \in S THEN v ELSE m[x]]

Range(s) == {s[k] : k \in 1..Len(s)}

Prefix(s, n) == SubSeq(s, 1, n)

\* an equal epoch counts as a newer one
timediff_late(t1, t2) == t1 - t2 + 1

\* timediff(t1, t2) of gnss.py, on whole seconds
timediff(t1, t2) == t1 - t2

\* list.append(x) guarded by "if x not in list", applied to each of xs in turn
RECURSIVE AppendNew(_, _)
AppendNew(l, xs) ==
    IF xs = <<>> THEN l
    ELSE AppendNew(IF Head(xs) \in Range(l) THEN l ELSE Append(l, Head(xs)),
                   Tail(xs))

----------------------------------------------------------------------------
(* The correction state of one network id *)

local_corr ==
    [iode |-> EmptyMap, dorb |-> EmptyMap, ddorb |-> EmptyMap,
     dclk |-> EmptyMap, ddclk |-> EmptyMap, dddclk |-> EmptyMap,
     hclk |-> EmptyMap, ura |-> EmptyMap, cbias |-> EmptyMap,
     pbias |-> EmptyMap, si |-> EmptyMap, di |-> EmptyMap, wl |-> EmptyMap,
     yaw |-> EmptyMap, dyaw |-> EmptyMap,
     t0 |-> [s \in Sats |-> [k \in Kinds |-> 0]],
     t0s |-> [k \in Kinds |-> 0],
     cstat |-> {}]

\* cssr.set_t0(inet, sat, ctype, t) for every satellite of S
set_t0(l, S, k, t) ==
    [l EXCEPT !.t0 = [s \in Sats |-> IF s \in S THEN [@[s] EXCEPT ![k] = t]
                                     ELSE @[s]]]

\* the tail of every decoder: cstat |= (1 << kind); t0s[kind] = self.time
Finish(l, k, t) == [l EXCEPT !.cstat = @ \cup {k}, !.t0s[k] = t]

Stored(b) == Range(Prefix(b.sats, b.nok))

Whole(b) == b.nok = Len(b.sats)

\* the satellite whose record the buffer ends in: its id was read, no more
Cut(b) == IF Whole(b) THEN {} ELSE {b.sats[b.nok + 1]}

Result(kind, n, b, ok) ==
    [kind |-> kind, inet |-> n, sats |-> b.sats, res |-> IF ok THEN "ok" ELSE "error"]

----------------------------------------------------------------------------
(* decode_cssr_orb *)

\* the maps of the earlier epoch are kept
OrbClear_keep(l) == l

\* the newer epoch empties the clock maps as well
OrbClear_wide(l) ==
    [l EXCEPT !.iode = EmptyMap, !.dorb = EmptyMap, !.ddorb = EmptyMap,
              !.dclk = EmptyMap, !.ddclk = EmptyMap, !.dddclk = EmptyMap]

OrbClear(l) == [l EXCEPT !.iode = EmptyMap, !.dorb = EmptyMap, !.ddorb = EmptyMap]

OrbStore(l, S, t) ==
    [l EXCEPT !.iode = Put(@, S, t), !.dorb = Put(@, S, t), !.ddorb = Put(@, S, t)]

decode_cssr_orb(n, t, b) ==
    LET newer == timediff(t, lc[n].t0s["ORBIT"]) > 0
        l0 == IF newer THEN OrbClear(lc[n]) ELSE lc[n]
        l1 == set_t0(OrbStore(l0, Stored(b), t), Stored(b), "ORBIT", t)
    IN  /\ ncalls < MaxCalls
        /\ time' = t
        /\ mi' = b.mi
        /\ udi' = udi \cup {"ORBIT"}
        /\ lc' = [lc EXCEPT ![n] = IF Whole(b) THEN Finish(l1, "ORBIT", t) ELSE l1]
        /\ sat_n' = (IF newer THEN <<>> ELSE sat_n)
                        \o (IF Whole(b) THEN b.sats ELSE <<>>)
        /\ iodssr_c' = IF Whole(b) THEN iodssr_c \cup {"ORBIT"} ELSE iodssr_c
        /\ call' = Result("orb", n, b, Whole(b))
        /\ ncalls' = ncalls + 1
        /\ UNCHANGED <<notSSR, inet, sat_b, dclk_n, iyaw, iexpb>>

----------------------------------------------------------------------------
(* decode_cssr_clk *)

ClkClear(l) == [l EXCEPT !.dclk = EmptyMap, !.ddclk = EmptyMap, !.dddclk = EmptyMap]

ClkStore(l, S, t) ==
    [l EXCEPT !.dclk = Put(@, S, t), !.ddclk = Put(@, S, t), !.dddclk = Put(@, S, t)]

decode_cssr_clk(n, t, b) ==
    LET newer == timediff(t, lc[n].t0s["CLOCK"]) > 0
        l0 == IF newer THEN ClkClear(lc[n]) ELSE lc[n]
        l1 == set_t0(ClkStore(l0, Stored(b), t), Stored(b), "CLOCK", t)
    IN  /\ ncalls < MaxCalls
        /\ time' = t
        /\ mi' = b.mi
        /\ udi' = udi \cup {"CLOCK"}
        /\ dclk_n' = Len(b.sats)
        /\ lc' = [lc EXCEPT ![n] = IF Whole(b) THEN Finish(l1, "CLOCK", t) ELSE l1]
        /\ iodssr_c' = IF Whole(b) THEN iodssr_c \cup {"CLOCK"} ELSE iodssr_c
        /\ call' = Result("clk", n, b, Whole(b))
        /\ ncalls' = ncalls + 1
        /\ UNCHANGED <<notSSR, inet, sat_n, sat_b, iyaw, iexpb>>

----------------------------------------------------------------------------
(* decode_cssr_comb *)

decode_cssr_comb(n, t, b) ==
    LET newer == timediff(t, lc[n].t0s["ORBIT"]) > 0
        l0 == IF newer THEN ClkClear(OrbClear(lc[n])) ELSE lc[n]
        \* set_t0 runs right after decode_sat, before the record is read
        l1 == set_t0(set_t0(l0, Stored(b) \cup Cut(b), "ORBIT", t),
                     Stored(b) \cup Cut(b), "CLOCK", t)
        l2 == ClkStore(OrbStore(l1, Stored(b), t), Stored(b), t)
        \* the tail sets both status bits and t0s[ORBIT] only
        l3 == [l2 EXCEPT !.cstat = @ \cup {"ORBIT", "CLOCK"}, !.t0s["ORBIT"] = t]
    IN  /\ ncalls < MaxCalls
        /\ time' = t
        /\ mi' = b.mi
        /\ udi' = udi \cup {"ORBIT", "CLOCK"}
        /\ dclk_n' = Len(b.sats)
        /\ lc' = [lc EXCEPT ![n] = IF Whole(b) THEN l3 ELSE l2]
        /\ sat_n' = (IF newer THEN <<>> ELSE sat_n)
                        \o (IF Whole(b) THEN b.sats ELSE <<>>)
        /\ iodssr_c' = IF Whole(b) THEN iodssr_c \cup {"ORBIT", "CLOCK"} ELSE iodssr_c
        /\ call' = Result("comb", n, b, Whole(b))
        /\ ncalls' = ncalls + 1
        /\ UNCHANGED <<notSSR, inet, sat_b, iyaw, iexpb>>

----------------------------------------------------------------------------
(* decode_cssr_ura *)

decode_cssr_ura(n, t, b) ==
    LET newer == timediff(t, lc[n].t0s["URA"]) > 0
        l0 == IF newer THEN [lc[n] EXCEPT !.ura = EmptyMap] ELSE lc[n]
        l1 == set_t0([l0 EXCEPT !.ura = Put(@, Stored(b), t)], Stored(b), "URA", t)
    IN  /\ ncalls < MaxCalls
        /\ time' = t
        /\ mi' = b.mi
        /\ udi' = udi \cup {"URA"}
        /\ lc' = [lc EXCEPT ![n] = IF Whole(b) THEN Finish(l1, "URA", t) ELSE l1]
        /\ iodssr_c' = IF Whole(b) THEN iodssr_c \cup {"URA"} ELSE iodssr_c
        /\ call' = Result("ura", n, b, Whole(b))
        /\ ncalls' = ncalls + 1
        /\ UNCHANGED <<notSSR, inet, sat_n, sat_b, dclk_n, iyaw, iexpb>>

----------------------------------------------------------------------------
(* decode_cssr_hclk: decode_hclk_sat writes record k into self.dclk_n[k], the *)
(* array the clock message decoded last has sized, and raises past its end   *)

decode_cssr_hclk(n, t, b) ==
    LET newer == timediff(t, lc[n].t0s["HCLOCK"]) > 0
        l0 == IF newer THEN [lc[n] EXCEPT !.hclk = EmptyMap] ELSE lc[n]
        nok == IF b.nok < dclk_n THEN b.nok ELSE dclk_n
        S == Range(Prefix(b.sats, nok))
        l1 == set_t0([l0 EXCEPT !.hclk = Put(@, S, t)], S, "HCLOCK", t)
        ok == nok = Len(b.sats)
    IN  /\ ncalls < MaxCalls
        /\ time' = t
        /\ mi' = b.mi
        /\ udi' = udi \cup {"HCLOCK"}
        /\ lc' = [lc EXCEPT ![n] = IF ok THEN Finish(l1, "HCLOCK", t) ELSE l1]
        /\ iodssr_c' = IF ok THEN iodssr_c \cup {"HCLOCK"} ELSE iodssr_c
        /\ call' = Result("hclk", n, b, ok)
        /\ ncalls' = ncalls + 1
        /\ UNCHANGED <<notSSR, inet, sat_n, sat_b, dclk_n, iyaw, iexpb>>

----------------------------------------------------------------------------
(* decode_cssr_cbias, decode_cssr_pbias *)

\* The satellites whose record is entered (id read, set_t0 called), those that
\* get their dictionary entry, and those whose signals are stored.  A signal
\* count above the table breaks out of the loop at the first record.
Entered(b) == IF b.over /\ b.nok >= 1 THEN {b.sats[1]} ELSE Stored(b) \cup Cut(b)

Keyed(b) == IF b.over /\ b.nok >= 1 THEN {b.sats[1]} ELSE Stored(b)

Filled(b) == IF b.over THEN {} ELSE Stored(b)

KeyedSeq(b) == IF b.over /\ b.nok >= 1 THEN <<b.sats[1]>> ELSE Prefix(b.sats, b.nok)

\* the loop ran to its end or broke out of it: the tail of the decoder runs
Ended(b) == (b.over /\ b.nok >= 1) \/ Whole(b)

\* m[sat] = {} for each new satellite of K, then m[sat][sig] = t for S x G
BiasStore(m, fresh, K, S, G, t) ==
    [s \in (DOMAIN m) \cup K |->
        LET old == IF s \in fresh \/ s \notin DOMAIN m THEN EmptyMap ELSE m[s]
        IN  IF s \in S THEN Put(old, G, t) ELSE old]

decode_cssr_cbias(n, t, b) ==
    LET newer == timediff(t, lc[n].t0s["CBIAS"]) > 0
        l0 == IF newer THEN [lc[n] EXCEPT !.cbias = EmptyMap] ELSE lc[n]
        fresh == Keyed(b) \ DOMAIN l0.cbias
        l1 == set_t0([l0 EXCEPT !.cbias =
                        BiasStore(@, fresh, Keyed(b), Filled(b), b.sigs, t)],
                     Entered(b), "CBIAS", t)
    IN  /\ ncalls < MaxCalls
        /\ time' = t
        /\ mi' = b.mi
        /\ udi' = udi \cup {"CBIAS"}
        /\ sat_b' = AppendNew(IF newer THEN <<>> ELSE sat_b, KeyedSeq(b))
        /\ lc' = [lc EXCEPT ![n] = IF Ended(b) THEN Finish(l1, "CBIAS", t) ELSE l1]
        /\ iodssr_c' = IF Ended(b) THEN iodssr_c \cup {"CBIAS"} ELSE iodssr_c
        /\ call' = Result("cbias", n, b, Ended(b))
        /\ ncalls' = ncalls + 1
        /\ UNCHANGED <<notSSR, inet, sat_n, dclk_n, iyaw, iexpb>>

PbiasClear(l) ==
    [l EXCEPT !.pbias = EmptyMap, !.si = EmptyMap, !.di = EmptyMap, !.wl = EmptyMap]

\* the satellite loop of decode_cssr_pbias on the state l of one network
PbiasLoop(l, h, b, t) ==
    LET fresh == Keyed(b) \ DOMAIN l.pbias
        gate == h.subtype # "SSR_PBIAS" \/ h.iyaw
        wlG == IF h.subtype # "SSR_PBIAS" THEN b.sigs ELSE {}
    IN  set_t0([l EXCEPT
                  !.yaw = IF gate THEN Put(@, Keyed(b), t) ELSE @,
                  !.dyaw = IF gate THEN Put(@, Keyed(b), t) ELSE @,
                  !.pbias = BiasStore(@, fresh, Keyed(b), Filled(b), b.sigs, t),
                  !.si = BiasStore(@, fresh, Keyed(b), Filled(b), b.sigs, t),
                  !.di = BiasStore(@, fresh, Keyed(b), Filled(b), b.sigs, t),
                  !.wl = BiasStore(@, fresh, Keyed(b), Filled(b), wlG, t)],
               Entered(b), "PBIAS", t)

\* the epoch test and the clearing use the argument inet (n); "inet = self.inet"
\* then rebinds it, so the loop and the tail work on lc[self.inet]
decode_cssr_pbias(n, t, h, b) ==
    LET newer == timediff(t, lc[n].t0s["PBIAS"]) > 0
        lc0 == IF newer THEN [lc EXCEPT ![n] = PbiasClear(@)] ELSE lc
        l1 == PbiasLoop(lc0[inet], h, b, t)
    IN  /\ ncalls < MaxCalls
        /\ time' = t
        /\ mi' = b.mi
        /\ iyaw' = h.iyaw
        /\ iexpb' = h.iexpb
        /\ udi' = udi \cup {"PBIAS"}
        /\ sat_b' = AppendNew(IF newer THEN <<>> ELSE sat_b, KeyedSeq(b))
        /\ lc' = [lc0 EXCEPT ![inet] = IF Ended(b) THEN Finish(l1, "PBIAS", t) ELSE l1]
        /\ iodssr_c' = IF Ended(b) THEN iodssr_c \cup {"PBIAS"} ELSE iodssr_c
        /\ call' = Result("pbias", n, b, Ended(b))
        /\ ncalls' = ncalls + 1
        /\ UNCHANGED <<notSSR, inet, sat_n, dclk_n>>

----------------------------------------------------------------------------
(* The decoder after construction, and the messages fed to it *)

rtcm_init ==
    /\ lc = [n \in Nets |-> local_corr]
    /\ time = 0
    /\ mi = FALSE
    /\ inet = 0
    /\ sat_n = <<>>
    /\ sat_b = <<>>
    /\ dclk_n = 0
    /\ iyaw = TRUE
    /\ iexpb = 0
    /\ udi = {}
    /\ iodssr_c = {}
    /\ call = [kind |-> "none", inet |-> 0, sats |-> <<>>, res |-> "ok"]
    /\ ncalls = 0
    /\ lock = EmptyMap
    /\ lct = [g \in Nets |-> [a \in TropAttrs |-> "unset"]]
    /\ ntrop = 0
    /\ integ = [tb \in IntegTables |-> EmptyMap]
    /\ ninteg = 0
    /\ integ_msg = [mask_sys |-> {}, iod |-> 0, res |-> "none"]

\* the variables of the other scenarios while they are not run
NoFrame ==
    /\ buf = <<>> /\ fk = 0 /\ enc_len = 0 /\ dec_len = 0 /\ dec_dlen = 0
    /\ acc = "none" /\ maxl = 0 /\ flipped = 0 /\ pcF = "off"

NoSat ==
    /\ in_sys = "NONE" /\ in_prn = 0 /\ out_sat = 0 /\ out_prn = <<>>
    /\ raised = FALSE /\ pcS = "off"

NoMsm == sig_n = <<>> /\ obs = [sat |-> <<>>, sig |-> <<>>, lli |-> <<>>] /\ nmsm = 0

NoCall == arg = <<>> /\ ret = <<>> /\ pcP = "off"

InitSSR == rtcm_init /\ NoFrame /\ NoSat /\ NoMsm /\ NoCall

NextSSR ==
    \/ \E n \in Nets, t \in Times, b \in Bodies : decode_cssr_orb(n, t, b)
    \/ \E n \in Nets, t \in Times, b \in Bodies : decode_cssr_clk(n, t, b)
    \/ \E n \in Nets, t \in Times, b \in Bodies : decode_cssr_comb(n, t, b)
    \/ \E n \in Nets, t \in Times, b \in Bodies : decode_cssr_ura(n, t, b)
    \/ \E n \in Nets, t \in Times, b \in Bodies : decode_cssr_hclk(n, t, b)
    \/ \E n \in Nets, t \in Times, b \in BiasBodies : decode_cssr_cbias(n, t, b)
    \/ \E n \in Nets, t \in Times, h \in PbiasHeads, b \in BiasBodies :
            decode_cssr_pbias(n, t, h, b)

SpecSSR == InitSSR /\ [][NextSSR]_vars

----------------------------------------------------------------------------
(* What one network holds for one correction kind *)

KindMaps(l, k) ==
    CASE k = "ORBIT"  -> <<l.iode, l.dorb, l.ddorb>>
      [] k = "CLOCK"  -> <<l.dclk, l.ddclk, l.dddclk>>
      [] k = "HCLOCK" -> <<l.hclk>>
      [] k = "URA"    -> <<l.ura>>
      [] k = "CBIAS"  -> <<l.cbias>>
      [] k = "PBIAS"  -> <<l.pbias, l.si, l.di, l.wl, l.yaw, l.dyaw>>

\* the maps, the cached epoch, the status bit and the per-satellite epochs
KindState(l, k) ==
    <<KindMaps(l, k), l.t0s[k], k \in l.cstat, [s \in Sats |-> l.t0[s][k]]>>

\* the kinds a decoder works on
KindsOf(d) ==
    CASE d = "orb"   -> {"ORBIT"}
      [] d = "clk"   -> {"CLOCK"}
      [] d = "comb"  -> {"ORBIT", "CLOCK"}
      [] d = "hclk"  -> {"HCLOCK"}
      [] d = "ura"   -> {"URA"}
      [] d = "cbias" -> {"CBIAS"}
      [] d = "pbias" -> {"PBIAS"}
      [] OTHER       -> {}

Decoded == ncalls' = ncalls + 1

----------------------------------------------------------------------------
(* C1: an orbit message with epoch T that lists S1, then an orbit message   *)
(* with a later epoch for the same network that does not list S1: the orbit *)
(* state of the network (iode, dorb, ddorb) holds the satellites of the     *)
(* second message and none of those only the first listed.                 *)

C1_EpochReset ==
    [][ ( /\ Decoded
          /\ call.kind = "orb" /\ call.res = "ok"
          /\ call'.kind = "orb" /\ call'.res = "ok"
          /\ call'.inet = call.inet
          /\ time' > time )
        => LET l == lc'[call'.inet]
               new == Range(call'.sats)
               old == Range(call.sats) \ new
           IN  /\ new \subseteq DOMAIN l.iode
               /\ new \subseteq DOMAIN l.dorb
               /\ new \subseteq DOMAIN l.ddorb
               /\ old \cap (DOMAIN l.iode \cup DOMAIN l.dorb \cup DOMAIN l.ddorb) = {}
      ]_vars

\* satellite 1 got its orbit correction at epoch 1, the orbit message decoded
\* last has epoch 2 and lists satellite 2 only, and only satellite 2 is held
C1_Witness ==
    /\ call.kind = "orb" /\ call.res = "ok" /\ call.sats = <<2>> /\ time = 2
    /\ lc[call.inet].t0[1]["ORBIT"] = 1
    /\ lc[call.inet].t0s["ORBIT"] = 2
    /\ DOMAIN lc[call.inet].iode = {2}
    /\ DOMAIN lc[call.inet].dorb = {2}

----------------------------------------------------------------------------
(* C2: two orbit messages, or two clock messages, with the same epoch for  *)
(* one network, the first with its multi-message flag set: afterwards the  *)
(* maps of the kind hold the satellites of both messages.                  *)

C2_MultiMessage ==
    [][ ( /\ Decoded
          /\ call.kind \in {"orb", "clk"} /\ call.res = "ok" /\ mi
          /\ call'.kind = call.kind /\ call'.res = "ok"
          /\ call'.inet = call.inet
          /\ time' = time )
        => LET l == lc'[call'.inet]
               both == Range(call.sats) \cup Range(call'.sats)
           IN  IF call'.kind = "orb"
               THEN both \subseteq DOMAIN l.iode \cap DOMAIN l.dorb \cap DOMAIN l.ddorb
               ELSE both \subseteq DOMAIN l.dclk \cap DOMAIN l.ddclk \cap DOMAIN l.dddclk
      ]_vars

\* the clock messages <<1>> (flag set) and <<2>> of epoch 1 were both decoded
C2_Witness ==
    /\ call.kind = "clk" /\ call.res = "ok" /\ call.sats = <<2>> /\ time = 1
    /\ ncalls = 2
    /\ lc[call.inet].t0[1]["CLOCK"] = 1
    /\ DOMAIN lc[call.inet].dclk = {1, 2}

----------------------------------------------------------------------------
(* C3: the satellites held in the orbit maps, or in the clock maps, of one *)
(* network all come from messages of one epoch, the cached epoch t0s[kind] *)
(* (checked for the network and kind of the message decoded last).         *)

C3_OneEpochPerKind ==
    (call.kind \in {"orb", "clk"} /\ call.res = "ok")
    => LET l == lc[call.inet]
       IN  IF call.kind = "orb"
           THEN \A s \in DOMAIN l.iode : l.iode[s] = l.t0s["ORBIT"]
           ELSE \A s \in DOMAIN l.dclk : l.dclk[s] = l.t0s["CLOCK"]

----------------------------------------------------------------------------
(* C4: a phase-bias message newer than the cached phase-bias epoch clears  *)
(* and repopulates the phase-bias maps of the network its satellites are   *)
(* stored under (self.inet) and leaves those of every other network, and   *)
(* their cached phase-bias epoch, unchanged.                               *)

C4_PbiasOneNetwork ==
    [][ ( /\ Decoded
          /\ call'.kind = "pbias" /\ call'.res = "ok"
          /\ time' > lc[inet].t0s["PBIAS"]
          /\ time' > lc[call'.inet].t0s["PBIAS"] )
        => /\ DOMAIN lc'[inet].pbias \subseteq Range(call'.sats)
           /\ DOMAIN lc'[inet].si \subseteq Range(call'.sats)
           /\ DOMAIN lc'[inet].di \subseteq Range(call'.sats)
           /\ DOMAIN lc'[inet].wl \subseteq Range(call'.sats)
           /\ \A m \in Nets \ {inet} :
                 /\ <<lc'[m].pbias, lc'[m].si, lc'[m].di, lc'[m].wl>>
                      = <<lc[m].pbias, lc[m].si, lc[m].di, lc[m].wl>>
                 /\ lc'[m].t0s["PBIAS"] = lc[m].t0s["PBIAS"]
      ]_vars

----------------------------------------------------------------------------
(* C5: a decoder that raises partway through a message for network N       *)
(* leaves every other correction kind of N, and every other network,       *)
(* as they were before the call.                                           *)

C5_AbortIsLocal ==
    [][ (Decoded /\ call'.res = "error")
        => /\ \A m \in Nets \ {call'.inet} : lc'[m] = lc[m]
           /\ \A k \in Kinds \ KindsOf(call'.kind) :
                 KindState(lc'[call'.inet], k) = KindState(lc[call'.inet], k)
      ]_vars

----------------------------------------------------------------------------
(* Bytes and bits.  Bit j of a byte counts from the most significant, 0..7 *)

Pow2(n) == IF n = 0 THEN 1 ELSE 2 ^ n

Bit(byte, j) == (byte \div Pow2(7 - j)) % 2

FlipBit(byte, j) ==
    IF Bit(byte, j) = 1 THEN byte - Pow2(7 - j) ELSE byte + Pow2(7 - j)

\* Python's msg[a:b]: the bytes a..b-1 (counted from 0), as far as msg reaches
Slice(msg, a, b) ==
    LET e == IF b < Len(msg) THEN b ELSE Len(msg)
    IN  IF a >= e THEN <<>> ELSE SubSeq(msg, a + 1, e)

\* CRC-24/LTE-A: x^24+x^23+x^18+x^17+x^14+x^11+x^10+x^7+x^6+x^5+x^4+x^3+x+1,
\* register 0 at the start, bits fed most significant first, no final xor.
\* The register is the set of its one-bits.
CrcPoly == {23, 18, 17, 14, 11, 10, 7, 6, 5, 4, 3, 1, 0}

Xor(A, B) == (A \ B) \cup (B \ A)

CrcStep(reg, b) ==
    LET shifted == {i + 1 : i \in reg \ {23}}
    IN  IF (23 \in reg) # (b = 1) THEN Xor(shifted, CrcPoly) ELSE shifted

\* one byte, most significant bit first
CrcByteIn(reg, byte) ==
    LET r0 == CrcStep(reg, Bit(byte, 0))
        r1 == CrcStep(r0, Bit(byte, 1))
        r2 == CrcStep(r1, Bit(byte, 2))
        r3 == CrcStep(r2, Bit(byte, 3))
        r4 == CrcStep(r3, Bit(byte, 4))
        r5 == CrcStep(r4, Bit(byte, 5))
        r6 == CrcStep(r5, Bit(byte, 6))
    IN  CrcStep(r6, Bit(byte, 7))

\* the bytes a..b of msg fed in order, by halves so that a frame of 1029 bytes
\* does not nest 1029 deep
RECURSIVE CrcSpan(_, _, _, _)
CrcSpan(msg, a, b, reg) ==
    IF a > b THEN reg
    ELSE IF a = b THEN CrcByteIn(reg, msg[a])
    ELSE LET mid == (a + b) \div 2
             r == CrcSpan(msg, a, mid, reg)
         IN  IF r = {} THEN CrcSpan(msg, mid + 1, b, {}) ELSE CrcSpan(msg, mid + 1, b, r)

CrcBytes(msg, n, reg) == CrcSpan(msg, n, Len(msg), reg)

\* Crc24LteA.calc(msg), as the set of the one-bits of the checksum
Crc24LteA(msg) == CrcBytes(msg, 1, {})

\* byte j (0: most significant) of a 24-bit register
RECURSIVE SumPow(_)
SumPow(S) ==
    IF S = {} THEN 0
    ELSE LET x == CHOOSE y \in S : TRUE IN Pow2(x) + SumPow(S \ {x})

\* the three CRC bytes come out least significant first
CrcByte_le(reg, j) == SumPow({i - 8 * j : i \in {x \in reg : x \div 8 = j}})

CrcByte(reg, j) == SumPow({i - 8 * (2 - j) : i \in {x \in reg : x \div 8 = 2 - j}})

\* st.unpack_from('>H', msg, k+1)[0] & 0x3ff
LenField(msg, k) == ((msg[k + 2] * 256) + msg[k + 3]) % 1024

----------------------------------------------------------------------------
(* rtcme.set_sync, set_len, set_checksum: the encoder frames a payload *)

Payload(seed, L) == [i \in 1..L |-> (seed * (83 * i + 41) + 211 * seed) % 256]

RawFrames ==
    { [k |-> k, msg |-> [i \in 1..k |-> 85] \o <<0, 0, 0>> \o Payload(seed, L) \o <<0, 0, 0>>,
       L |-> L]
        : k \in 0..MaxOffset, seed \in 0..MaxSeed, L \in (MinLen - 1)..MaxPayload }

set_sync ==
    /\ pcF = "raw"
    /\ buf' = [buf EXCEPT ![fk + 1] = 211]
    /\ pcF' = "sync"
    /\ UNCHANGED <<notFrame, fk, enc_len, dec_len, dec_dlen, acc, maxl, flipped>>

\* the payload length is what lies between the 3 header and the 3 CRC bytes
set_len ==
    LET len_ == Len(buf) - fk - 6
    IN  /\ pcF = "sync"
        /\ buf' = [buf EXCEPT ![fk + 2] = (len_ % 1024) \div 256,
                              ![fk + 3] = (len_ % 1024) % 256]
        /\ enc_len' = len_
        /\ pcF' = "len"
        /\ UNCHANGED <<notFrame, fk, dec_len, dec_dlen, acc, maxl, flipped>>

\* set_checksum(msg, k) with maxlen = 0; a payload under 6 bytes gets no CRC
set_checksum ==
    LET cs == Crc24LteA(Slice(buf, fk, fk + enc_len + 3))
        at == fk + enc_len + 3
    IN  /\ pcF = "len"
        /\ buf' = IF enc_len < MinLen THEN buf
                  ELSE [buf EXCEPT ![at + 1] = CrcByte(cs, 0),
                                   ![at + 2] = CrcByte(cs, 1),
                                   ![at + 3] = CrcByte(cs, 2)]
        /\ pcF' = "framed"
        /\ UNCHANGED <<notFrame, fk, enc_len, dec_len, dec_dlen, acc, maxl, flipped>>

----------------------------------------------------------------------------
(* rtcm.checksum *)

\* the CRC of the frame is not compared with 0
checksum_any(msg, k, maxlen) ==
    LET len_ == LenField(msg, k)
    IN  IF len_ < MinLen THEN FALSE
        ELSE IF maxlen > 0 /\ k + len_ >= maxlen THEN FALSE
        ELSE TRUE

\* the value checksum(msg, k, maxlen) returns
checksum(msg, k, maxlen) ==
    LET len_ == LenField(msg, k)
    IN  IF len_ < MinLen THEN FALSE
        ELSE IF maxlen > 0 /\ k + len_ >= maxlen THEN FALSE
        ELSE Crc24LteA(Slice(msg, k, k + len_ + 6)) = {}

\* self.len and self.dlen are set only past the two early returns
checksum_sets(msg, k, maxlen) ==
    LET len_ == LenField(msg, k)
    IN  ~ (len_ < MinLen) /\ ~ (maxlen > 0 /\ k + len_ >= maxlen)

call_checksum(m) ==
    /\ pcF \in {"framed", "flipped"}
    /\ pcF = "flipped" => m = maxl
    /\ acc' = checksum(buf, fk, m)
    /\ maxl' = m
    /\ dec_len' = IF checksum_sets(buf, fk, m) THEN LenField(buf, fk) ELSE dec_len
    /\ dec_dlen' = IF checksum_sets(buf, fk, m) THEN LenField(buf, fk) + 6 ELSE dec_dlen
    /\ pcF' = IF pcF = "framed" THEN "checked" ELSE "rechecked"
    /\ UNCHANGED <<notFrame, buf, fk, enc_len, flipped>>

\* one bit of the payload or of the CRC bytes of an accepted frame is flipped;
\* bit p (from 1) counts from the first payload bit
flip_bit(p) ==
    LET at == fk + 3 + ((p - 1) \div 8) + 1
    IN  /\ pcF = "checked"
        /\ acc = TRUE
        /\ buf' = [buf EXCEPT ![at] = FlipBit(@, (p - 1) % 8)]
        /\ flipped' = p
        /\ pcF' = "flipped"
        /\ UNCHANGED <<notFrame, fk, enc_len, dec_len, dec_dlen, acc, maxl>>

RawFrame ==
    /\ \E f \in RawFrames : buf = f.msg /\ fk = f.k
    /\ enc_len = 0 /\ dec_len = 0 /\ dec_dlen = 0
    /\ acc = "none" /\ maxl = 0 /\ flipped = 0 /\ pcF = "raw"

InitFrame == RawFrame /\ rtcm_init /\ NoSat /\ NoMsm /\ NoCall

NextFrame ==
    \/ set_sync
    \/ set_len
    \/ set_checksum
    \/ \E m \in 0..(Len(buf) + 1) : call_checksum(m)
    \/ \E p \in 1..(8 * (Len(buf) - fk - 3)) : flip_bit(p)

SpecFrame == InitFrame /\ [][NextFrame]_vars

----------------------------------------------------------------------------
(* gnss.py: uGNSS, prn2sat, sat2prn *)

GPSMAX == 32
GALMAX == 36
QZSMAX == 10
BDSMAX == 63
GLOMAX == 27
SBSMAX == 24
IRNMAX == 10

MAXSAT == GPSMAX + GLOMAX + GALMAX + BDSMAX + QZSMAX + SBSMAX + IRNMAX

Systems == {"GPS", "SBS", "GAL", "BDS", "QZS", "GLO", "IRN"}

prn2sat(sys, prn) ==
    IF sys = "GPS" THEN prn
    ELSE IF sys = "GLO" THEN prn + GPSMAX
    ELSE IF sys = "GAL" THEN prn + GPSMAX + GLOMAX
    ELSE IF sys = "BDS" THEN prn + GPSMAX + GLOMAX + GALMAX
    ELSE IF sys = "QZS" THEN prn - 192 + GPSMAX + GLOMAX + GALMAX + BDSMAX
    ELSE IF sys = "SBS" THEN prn - 100 + GPSMAX + GLOMAX + GALMAX + BDSMAX + QZSMAX
    ELSE IF sys = "IRN" THEN prn + GPSMAX + GLOMAX + GALMAX + BDSMAX + QZSMAX + SBSMAX
    ELSE 0

sat2prn(sat) ==
    IF sat > GPSMAX + GLOMAX + GALMAX + BDSMAX + QZSMAX + SBSMAX
    THEN <<"IRN", sat - (GPSMAX + GLOMAX + GALMAX + BDSMAX + QZSMAX + SBSMAX)>>
    ELSE IF sat > GPSMAX + GLOMAX + GALMAX + BDSMAX + QZSMAX
    THEN <<"SBS", sat - (GPSMAX + GLOMAX + GALMAX + BDSMAX + QZSMAX) + 100>>
    ELSE IF sat > GPSMAX + GLOMAX + GALMAX + BDSMAX
    THEN <<"QZS", sat - (GPSMAX + GLOMAX + GALMAX + BDSMAX) + 192>>
    ELSE IF sat > GPSMAX + GLOMAX + GALMAX
    THEN <<"BDS", sat - (GPSMAX + GLOMAX + GALMAX)>>
    ELSE IF sat > GPSMAX + GLOMAX
    THEN <<"GAL", sat - (GPSMAX + GLOMAX)>>
    ELSE IF sat > GPSMAX
    THEN <<"GLO", sat - GPSMAX>>
    ELSE <<"GPS", sat>>

\* the PRN of the first satellite of a constellation: the offset decode_msm
\* hands to decode_mask for the satellite mask
ofst(sys) == IF sys = "QZS" THEN 193 ELSE IF sys = "SBS" THEN 120 ELSE 1

\* the size of the sub-range of a constellation
PrnCount(sys) ==
    IF sys = "GPS" THEN GPSMAX
    ELSE IF sys = "GLO" THEN GLOMAX
    ELSE IF sys = "GAL" THEN GALMAX
    ELSE IF sys = "BDS" THEN BDSMAX
    ELSE IF sys = "QZS" THEN QZSMAX
    ELSE IF sys = "SBS" THEN SBSMAX
    ELSE IF sys = "IRN" THEN IRNMAX
    ELSE 0

ValidPrn(sys) == ofst(sys)..(ofst(sys) + PrnCount(sys) - 1)

\* prn2sat has no raise statement: every branch ends in "return sat"
call_prn2sat ==
    /\ pcS = "in"
    /\ out_sat' = prn2sat(in_sys, in_prn)
    /\ raised' = FALSE
    /\ pcS' = "sat"
    /\ UNCHANGED <<notSat, in_sys, in_prn, out_prn>>

call_sat2prn ==
    /\ pcS = "sat"
    /\ out_prn' = sat2prn(out_sat)
    /\ pcS' = "back"
    /\ UNCHANGED <<notSat, in_sys, in_prn, out_sat, raised>>

InitSat ==
    /\ in_sys \in Systems \cup {"NONE"}
    /\ in_prn \in 0..MaxPrn
    /\ out_sat = 0 /\ out_prn = <<>> /\ raised = FALSE /\ pcS = "in"
    /\ rtcm_init /\ NoFrame /\ NoMsm /\ NoCall

NextSat == call_prn2sat \/ call_sat2prn

SpecSat == InitSat /\ [][NextSat]_vars

----------------------------------------------------------------------------
(* rtcm.decode_msm: the lock-time cache self.lock and the lli output *)

\* Python values that are compared across types: an int never equals a list
PyInt(v) == [t |-> "int", v |-> v]

PyList(l) == [t |-> "list", v |-> l]

PyEq(a, b) == a.t = b.t /\ a.v = b.v

\* x in l
PyIn(x, l) == \E i \in 1..Len(l) : PyEq(x, l[i])

\* the number of cells of a cell mask
RECURSIVE NCells(_, _)
NCells(cell, k) == IF k = 0 THEN 0 ELSE Cardinality(cell[k]) + NCells(cell, k - 1)

\* The MSM messages fed in: the PRNs of the satellite mask, the ids of the
\* signal mask, per satellite the set of the positions of the signal list it
\* has a cell for, and the lock-time counter and half-cycle flag of each cell
\* by satellite and signal position (0 where the satellite has no cell, as in
\* the work arrays ll_ and hf_)
MsmFor(P, S) ==
    { [prn |-> P, sig |-> S, cell |-> c, ll |-> l, hf |-> h] :
        c \in { x \in [1..Len(P) -> SUBSET (1..Len(S))] : NCells(x, Len(P)) <= MaxCells },
        l \in [1..Len(P) -> [1..Len(S) -> LockVals \cup {0}]],
        h \in [1..Len(P) -> [1..Len(S) -> {0, 1}]] }

MsmMsgs ==
    { m \in UNION { MsmFor(P, S) : P \in MsmPrns, S \in MsmSigs } :
        \A k \in 1..Len(m.prn), j \in 1..Len(m.sig) :
            j \notin m.cell[k] => m.ll[k][j] = 0 /\ m.hf[k][j] = 0 }

\* sig_n = [sig[i] for i in sig_]: the signal ids of the cells of satellite k
RECURSIVE CellSigs(_, _, _)
CellSigs(S, c, j) ==
    IF j > Len(S) THEN <<>>
    ELSE (IF j \in c THEN <<S[j]>> ELSE <<>>) \o CellSigs(S, c, j + 1)

SigN(m) == [k \in 1..Len(m.prn) |-> CellSigs(m.sig, m.cell[k], 1)]

\* (ll == 0 & ll_p != 0) | ll < ll_p: & and | bind tighter than the
\* comparisons, so the first operand is the chain ll == 0 != 0, which is
\* False, and the whole is (False | ll) < ll_p
LockLost(ll, ll_p) == ll < ll_p

\* obs.lli[k, idx] after the loop over the signal positions j of satellite k;
\* self.sig_n holds one list per satellite and sig[j] is an int.  A cached
\* array shorter than the present signal list has no element j (IndexError),
\* shown as -1.
Lli(m, k, j, sn) ==
    LET sat_ == prn2sat("GPS", m.prn[k])
    IN  IF sat_ \notin DOMAIN lock THEN 0
        ELSE IF ~ PyIn(PyInt(m.sig[j]), [i \in 1..Len(sn) |-> PyList(sn[i])]) THEN 0
        ELSE IF j > Len(lock[sat_]) THEN -1
        ELSE IF m.hf[k][j] > 0 THEN 3
        ELSE IF LockLost(m.ll[k][j], lock[sat_][j]) THEN 1
        ELSE 0

decode_msm(m) ==
    LET sats == [k \in 1..Len(m.prn) |-> prn2sat("GPS", m.prn[k])]
        sn == SigN(m)
    IN  /\ nmsm < MaxMsm
        /\ sig_n' = sn
        /\ obs' = [sat |-> sats, sig |-> m.sig,
                   lli |-> [k \in 1..Len(m.prn) |->
                               [j \in 1..Len(m.sig) |-> Lli(m, k, j, sn)]]]
        /\ lock' = [s \in (DOMAIN lock) \cup Range(sats) |->
                       IF s \in Range(sats)
                       THEN m.ll[CHOOSE k \in 1..Len(sats) : sats[k] = s]
                       ELSE lock[s]]
        /\ nmsm' = nmsm + 1
        /\ UNCHANGED notMsm

InitMsm == rtcm_init /\ NoFrame /\ NoSat /\ NoMsm /\ NoCall

NextMsm == \E m \in MsmMsgs : decode_msm(m)

SpecMsm == InitMsm /\ [][NextMsm]_vars

----------------------------------------------------------------------------
(* C6: for every frame that checksum accepts, flipping any single bit of   *)
(* its payload, or any single bit of its 3 trailing CRC bytes, gives a     *)
(* frame that checksum rejects.                                            *)

C6_BitFlipRejected == pcF = "rechecked" => acc = FALSE

\* a bit of the CRC bytes of an accepted 7-byte frame within maxlen was
\* flipped and the frame checked again
C6_Witness ==
    /\ pcF = "rechecked" /\ acc = FALSE
    /\ enc_len = 7 /\ flipped > 8 * enc_len /\ maxl > fk + enc_len

----------------------------------------------------------------------------
(* C7: checksum(msg, k, maxlen) with maxlen > 0 accepts a frame at byte k  *)
(* with the length L only if k + L + 6 <= maxlen.                          *)

C7_WholeFrameWithin ==
    (pcF = "checked" /\ maxl > 0 /\ acc = TRUE) => fk + dec_len + 6 <= maxl

----------------------------------------------------------------------------
(* C8: for every constellation c and every PRN valid for c,                *)
(* sat2prn(prn2sat(c, prn)) = (c, prn); two different valid pairs never    *)
(* map to the same satellite number.                                       *)

C8_RoundTrip ==
    (pcS = "back" /\ in_sys \in Systems /\ in_prn \in ValidPrn(in_sys))
        => /\ out_prn = <<in_sys, in_prn>>
           /\ \A c \in Systems : \A p \in ValidPrn(c) :
                  prn2sat(c, p) = out_sat => <<c, p>> = <<in_sys, in_prn>>

----------------------------------------------------------------------------
(* C9: prn2sat fails with an error whenever the PRN lies outside the range *)
(* of the given constellation; it returns no satellite number then.        *)

C9_InvalidPrnFails ==
    (pcS \in {"sat", "back"} /\ in_sys \in Systems /\ in_prn \notin ValidPrn(in_sys))
        => raised

----------------------------------------------------------------------------
(* C10: whenever an MSM message reports for a (satellite, signal) pair a   *)
(* lock-time counter smaller than the one cached for that pair from the    *)
(* MSM message decoded before, bit 0 of lli of that pair is set in the     *)
(* observation block of the later message.                                 *)

C10_LockDecreaseSetsLli ==
    [][ nmsm' = nmsm + 1
        => \A k \in 1..Len(obs'.sat) : \A j \in 1..Len(obs'.sig) :
              LET sat_ == obs'.sat[k]
              IN  ( /\ obs'.sig[j] \in Range(sig_n'[k])
                    /\ obs'.sig = obs.sig
                    /\ sat_ \in Range(obs.sat)
                    /\ lock'[sat_][j] < lock[sat_][j] )
                  => obs'.lli[k][j] % 2 = 1
      ]_vars

----------------------------------------------------------------------------
(* rtcm.decode_msm: the pseudorange and the carrier phase of one cell *)

\* A float of the range arithmetic: nan, or hi/1024 light-milliseconds plus
\* lo * 2^-e light-milliseconds.  The satellite part r[k] has lo = 0, so a sum
\* never mixes two exponents, and the arithmetic is exact.
NaN == [nan |-> TRUE, hi |-> 0, lo |-> 0, e |-> 0]

Num(hi, lo, e) == [nan |-> FALSE, hi |-> hi, lo |-> lo, e |-> IF lo = 0 THEN 0 ELSE e]

FAdd(a, b) ==
    IF a.nan \/ b.nan THEN NaN
    ELSE Num(a.hi + b.hi, a.lo + b.lo, IF a.e > b.e THEN a.e ELSE b.e)

\* cssr.sval(u, n, scl): nan for the n-bit value -2^(n-1), else u * scl
sval(u, n, e) == IF u = - Pow2(n - 1) THEN NaN ELSE Num(0, u, e)

\* r[k]: zero at the start; the rough range v of the satellite unless it is
\* all ones; for MSM4-7 the 10-bit fraction F is added if r[k] != 0.0
msm_r(msm, v, F) ==
    IF msm >= 1 /\ msm <= 3
    THEN (IF v # Pow2(10) - 1 THEN Num(v * 1024, 0, 0) ELSE Num(0, 0, 0))
    ELSE LET r0 == IF v # Pow2(8) - 1 THEN Num(v * 1024, 0, 0) ELSE Num(0, 0, 0)
         IN  IF r0 # Num(0, 0, 0) THEN FAdd(r0, Num(F, 0, 0)) ELSE r0

\* pr[k]: nan at the start; the fine range, 15 bits of 2^-24 or 20 of 2^-29
msm_pr(msm, pr_) ==
    IF msm # 2
    THEN sval(pr_, IF msm < 6 THEN 15 ELSE 20, IF msm < 6 THEN 24 ELSE 29)
    ELSE NaN

\* cp[k]: nan at the start; the fine phase, 22 bits of 2^-29 or 24 of 2^-31
msm_cp(msm, cp_) ==
    IF msm > 1
    THEN sval(cp_, IF msm < 6 THEN 22 ELSE 24, IF msm < 6 THEN 29 ELSE 31)
    ELSE NaN

\* pr_[idx] = pr[j+ofst]+r[k]
msm_P(msm, v, F, pr_) == FAdd(msm_pr(msm, pr_), msm_r(msm, v, F))

\* cp_[idx] = (cp[j+ofst]+r[k])*freq/rCST.CLIGHT, as the range before it is
\* turned into cycles
msm_L(msm, v, F, cp_) == FAdd(msm_cp(msm, cp_), msm_r(msm, v, F))

\* the fields of one cell on the wire, by MSM type
RangeArgs ==
    { [msm |-> t, v |-> v, F |-> F, pr_ |-> a, cp_ |-> c] :
        t \in 1..7, v \in {0, 1, 100, 254, 255, 1023}, F \in {0, 512, 1023},
        a \in {- Pow2(14), - Pow2(19), -1, 0, 512},
        c \in {- Pow2(21), - Pow2(23), 0, 7} }

\* the fields the MSM type has, within their widths
RangeFields(x) ==
    /\ x.v < (IF x.msm <= 3 THEN Pow2(10) ELSE Pow2(8))
    /\ x.msm <= 3 => x.F = 0
    /\ IF x.msm = 2 THEN x.pr_ = 0 ELSE x.pr_ >= - Pow2(IF x.msm < 6 THEN 14 ELSE 19)
    /\ IF x.msm = 1 THEN x.cp_ = 0 ELSE x.cp_ >= - Pow2(IF x.msm < 6 THEN 21 ELSE 23)

msm_range ==
    /\ pcP = "range"
    /\ ret' = [r |-> msm_r(arg.msm, arg.v, arg.F),
               P |-> msm_P(arg.msm, arg.v, arg.F, arg.pr_),
               L |-> msm_L(arg.msm, arg.v, arg.F, arg.cp_)]
    /\ pcP' = "ranged"
    /\ UNCHANGED <<notFn, arg>>

InitRange ==
    /\ arg \in {x \in RangeArgs : RangeFields(x)}
    /\ ret = <<>> /\ pcP = "range"
    /\ rtcm_init /\ NoFrame /\ NoSat /\ NoMsm

NextRange == msm_range

SpecRange == InitRange /\ [][NextRange]_vars

\* the rough range of the satellite is the all-ones value of its field
RoughMissing(x) == x.v = (IF x.msm <= 3 THEN Pow2(10) - 1 ELSE Pow2(8) - 1)

----------------------------------------------------------------------------
(* C11: when the rough range of a satellite is the not-available value     *)
(* (255 in MSM4-7, 1023 in MSM1-3), every pseudorange and carrier phase    *)
(* output for the satellite is not available, whatever its fine fields     *)
(* hold.                                                                   *)

C11_RoughMissingNoRange ==
    (pcP = "ranged" /\ RoughMissing(arg)) => ret.P.nan /\ ret.L.nan

----------------------------------------------------------------------------
(* C12: for MSM4-7, every rough range R in 0..254, every fraction F in     *)
(* 0..1023 and every available fine range f, the pseudorange of the cell   *)
(* is R*rms + F*rms*2^-10 + f*unit_fine.                                   *)

C12_RoughPlusFine ==
    (pcP = "ranged" /\ arg.msm >= 4 /\ arg.v \in 0..254
        /\ arg.pr_ # - Pow2(IF arg.msm < 6 THEN 14 ELSE 19))
        => ret.P = Num(arg.v * 1024 + arg.F, arg.pr_, IF arg.msm < 6 THEN 24 ELSE 29)

----------------------------------------------------------------------------
(* rtcmUtil.adjustweek *)

\* time2gpst(t)[0]: the week of a time given in seconds since the GPS epoch
time2gpst_week(sec) == sec \div (86400 * 7)

adjustweek(week, tref) ==
    LET week_ == time2gpst_week(tref)
        week_ref == (week_ \div 1024) * 1024
    IN  (week % 1024) + week_ref

\* the 10-bit week of an ephemeris message, and reference times at the start
\* and the end of weeks on both sides of a rollover
WeekArgs ==
    { [week |-> w, tref |-> wr * (86400 * 7) + tow] :
        w \in 0..1023,
        wr \in {1024, 1025, 1535, 1536, 1537, 2047, 2048, 2400},
        tow \in {0, 86400 * 7 - 1} }

call_adjustweek ==
    /\ pcP = "week"
    /\ ret' = adjustweek(arg.week, arg.tref)
    /\ pcP' = "weeked"
    /\ UNCHANGED <<notFn, arg>>

InitWeek ==
    /\ arg \in WeekArgs
    /\ ret = <<>> /\ pcP = "week"
    /\ rtcm_init /\ NoFrame /\ NoSat /\ NoMsm

NextWeek == call_adjustweek

SpecWeek == InitWeek /\ [][NextWeek]_vars

----------------------------------------------------------------------------
(* C13: adjustweek(week, tref) returns the week that is congruent to the   *)
(* transmitted week modulo 1024 and nearest to the week of tref, so it     *)
(* never differs from the reference week by more than 512 weeks.           *)

C13_NearestWeek ==
    pcP = "weeked"
        => LET wref == time2gpst_week(arg.tref)
           IN  /\ ret % 1024 = arg.week % 1024
               /\ ret - wref <= 512
               /\ wref - ret <= 512

----------------------------------------------------------------------------
(* rtcmUtil: the message type tables; rtcm.decode: the dispatch *)

SsrRows ==
    {
      <<1057, "GPS", "ORBIT">>, <<1058, "GPS", "CLOCK">>, <<1059, "GPS", "CBIAS">>,
      <<1060, "GPS", "OC">>, <<1061, "GPS", "URA">>, <<1062, "GPS", "HCLOCK">>,
      <<41, "GLO", "ORBIT">>, <<42, "GLO", "CLOCK">>, <<43, "GLO", "CBIAS">>,
      <<44, "GLO", "OC">>, <<45, "GLO", "URA">>, <<46, "GLO", "HCLOCK">>,
      <<60, "NONE", "META">>, <<61, "NONE", "GRID">>, <<62, "GAL", "ORBIT">>,
      <<63, "BDS", "ORBIT">>, <<64, "QZS", "ORBIT">>, <<65, "GAL", "CLOCK">>,
      <<66, "BDS", "CLOCK">>, <<67, "QZS", "CLOCK">>, <<68, "GAL", "CBIAS">>,
      <<69, "BDS", "CBIAS">>, <<70, "QZS", "CBIAS">>, <<71, "GAL", "OC">>,
      <<72, "BDS", "OC">>, <<73, "QZS", "OC">>, <<74, "GAL", "URA">>,
      <<75, "BDS", "URA">>, <<76, "QZS", "URA">>, <<77, "GAL", "HCLOCK">>,
      <<78, "BDS", "HCLOCK">>, <<79, "QZS", "HCLOCK">>, <<80, "GPS", "SATANT">>,
      <<81, "GLO", "SATANT">>, <<82, "GAL", "SATANT">>, <<83, "BDS", "SATANT">>,
      <<84, "QZS", "SATANT">>, <<85, "GPS", "PBIAS">>, <<86, "GLO", "PBIAS">>,
      <<87, "GAL", "PBIAS">>, <<88, "BDS", "PBIAS">>, <<89, "QZS", "PBIAS">>,
      <<90, "GPS", "PBIAS_EX">>, <<91, "GLO", "PBIAS_EX">>, <<92, "GAL", "PBIAS_EX">>,
      <<93, "BDS", "PBIAS_EX">>, <<94, "QZS", "PBIAS_EX">>, <<95, "NONE", "TROP">>,
      <<96, "GPS", "STEC">>, <<97, "GLO", "STEC">>, <<98, "GAL", "STEC">>,
      <<99, "BDS", "STEC">>, <<100, "QZS", "STEC">> }

\* ssrtype_t[mt] = (constellation, correction kind)
ssrtype_t ==
    [mt \in {row[1] : row \in SsrRows} |->
        LET row == CHOOSE x \in SsrRows : x[1] = mt IN <<row[2], row[3]>>]

\* ssr_t in the order of its keys, and msm_t
ssr_t == << <<"GPS", 1057>>, <<"GLO", 1063>>, <<"GAL", 1240>>,
            <<"QZS", 1246>>, <<"SBS", 1252>>, <<"BDS", 1258>> >>

msm_t == << <<"GPS", 1071>>, <<"GLO", 1081>>, <<"GAL", 1091>>,
            <<"SBS", 1101>>, <<"QZS", 1111>>, <<"BDS", 1121>> >>

\* the first entry of a table whose base type B has B <= mt <= B+6 (0: none)
FirstIn(tbl, mt) ==
    LET hit == {k \in 1..Len(tbl) : mt >= tbl[k][2] /\ mt <= tbl[k][2] + 6}
    IN  IF hit = {} THEN 0 ELSE CHOOSE k \in hit : \A j \in hit : k <= j

is_msmtype(mt) == FirstIn(msm_t, mt) # 0

\* ssrtype(msgtype) = (sys, ssr)
ssrtype(mt) ==
    LET k == FirstIn(ssr_t, mt)
    IN  IF k = 0 THEN <<"NONE", 0>> ELSE <<ssr_t[k][1], mt - ssr_t[k][2] + 1>>

\* get_ssr_sys(msgtype); "raise" where the last line reads a tbl_t that no
\* branch has bound
get_ssr_sys(mt, sysref) ==
    IF mt = 4076 THEN sysref
    ELSE IF mt >= 1057 /\ mt < 1063 THEN "GPS"
    ELSE IF mt >= 1063 /\ mt < 1069 THEN "GLO"
    ELSE IF mt >= 1240 /\ mt < 1246 THEN "GAL"
    ELSE IF mt >= 1246 /\ mt < 1252 THEN "QZS"
    ELSE IF mt >= 1252 /\ mt < 1258 THEN "SBS"
    ELSE IF mt >= 1258 /\ mt < 1264 THEN "BDS"
    ELSE IF mt = 1264 THEN "NONE"
    ELSE IF mt >= 1265 /\ mt < 1271
        THEN <<"GPS", "GLO", "GAL", "QZS", "SBS", "BDS">>[mt - 1264]
    ELSE IF mt >= 41 /\ mt < 47 THEN "GLO"
    ELSE IF mt \in {62, 65, 68, 71, 74, 77} THEN "GAL"
    ELSE IF mt \in {63, 66, 69, 72, 75, 78} THEN "BDS"
    ELSE IF mt \in {64, 67, 70, 73, 76, 79} THEN "QZS"
    ELSE IF mt >= 80 /\ mt < 85 THEN <<"GPS", "GLO", "GAL", "BDS", "QZS">>[mt - 79]
    ELSE IF mt >= 85 /\ mt < 90 THEN <<"GPS", "GLO", "GAL", "BDS", "QZS">>[mt - 84]
    ELSE IF mt >= 90 /\ mt < 95 THEN <<"GPS", "GLO", "GAL", "BDS", "QZS">>[mt - 89]
    ELSE IF mt >= 96 /\ mt < 101 THEN <<"GPS", "GLO", "GAL", "BDS", "QZS">>[mt - 95]
    ELSE IF mt \in {60, 61, 95} THEN "NONE"
    ELSE IF mt \in {11, 12, 13} THEN "NONE"
    ELSE "raise"

\* a branch of decode: the decoder it calls, and whether it assigns the
\* decoder's result to i
Run(dec, takes) == [dec |-> dec, takes |-> takes]

\* the if/elif chain of decode past the scan mode and the skip list
Dispatch(mt, mask_pbias) ==
    IF mt \in {1057, 1063, 1240, 1246, 1252, 1258} THEN Run("decode_cssr_orb", TRUE)
    ELSE IF mt \in {1058, 1064, 1241, 1247, 1253, 1259} THEN Run("decode_cssr_clk", TRUE)
    ELSE IF mt \in {1059, 1065, 1242, 1248, 1254, 1260} THEN Run("decode_cssr_cbias", TRUE)
    ELSE IF mt \in {1265, 1266, 1267, 1268, 1269, 1270}
        THEN (IF ~ mask_pbias THEN Run("decode_cssr_pbias", TRUE) ELSE Run("none", FALSE))
    ELSE IF mt \in {1060, 1066, 1243, 1249, 1255, 1261} THEN Run("decode_cssr_comb", TRUE)
    ELSE IF mt \in {1061, 1067, 1244, 1250, 1256, 1262} THEN Run("decode_cssr_ura", TRUE)
    ELSE IF mt \in {1062, 1068, 1245, 1251, 1257, 1263} THEN Run("decode_cssr_hclk", TRUE)
    ELSE IF mt = 4076 THEN Run("decode_igsssr", TRUE)
    ELSE IF mt \in {1030, 1031, 1303, 1304, 1305} THEN Run("decode_nrtk_residual", TRUE)
    ELSE IF is_msmtype(mt) THEN Run("decode_msm", TRUE)
    ELSE IF mt \in {1007, 1008, 1033} THEN Run("decode_ant_desc", TRUE)
    ELSE IF mt \in {1005, 1006, 1032} THEN Run("decode_sta_pos", TRUE)
    ELSE IF mt = 1230 THEN Run("decode_glo_bias", TRUE)
    ELSE IF mt = 1019 THEN Run("decode_gps_eph", TRUE)
    ELSE IF mt = 1020 THEN Run("decode_glo_eph", TRUE)
    ELSE IF mt = 1041 THEN Run("decode_irn_eph", TRUE)
    ELSE IF mt = 1042 \/ mt = 63 THEN Run("decode_bds_eph", TRUE)
    ELSE IF mt = 1043 THEN Run("decode_sbs_eph", TRUE)
    ELSE IF mt = 1044 THEN Run("decode_qzs_eph", TRUE)
    ELSE IF mt = 1045 \/ mt = 1046 THEN Run("decode_gal_eph", TRUE)
    ELSE IF mt = 1029 THEN Run("decode_unicode_text", FALSE)
    ELSE IF mt = 60 THEN Run("decode_ssr_metadata", TRUE)
    ELSE IF mt = 61 THEN Run("decode_ssr_grid", TRUE)
    ELSE IF mt \in {1057, 41, 62, 63, 64} THEN Run("decode_cssr_orb", TRUE)
    ELSE IF mt \in {1058, 42, 65, 66, 67} THEN Run("decode_cssr_clk", TRUE)
    ELSE IF mt \in {1060, 44, 71, 72, 73} THEN Run("decode_cssr_comb", TRUE)
    ELSE IF mt \in {1061, 45, 74, 75, 76} THEN Run("decode_cssr_ura", TRUE)
    ELSE IF mt \in {1062, 46, 77, 78, 79} THEN Run("decode_cssr_hclk", TRUE)
    ELSE IF mt \in {1059, 43, 68, 69, 70} THEN Run("decode_cssr_cbias", TRUE)
    ELSE IF mt >= 80 /\ mt < 85 THEN Run("decode_ssr_satant", TRUE)
    ELSE IF mt >= 85 /\ mt < 90
        THEN (IF ~ mask_pbias THEN Run("decode_cssr_pbias", TRUE) ELSE Run("none", FALSE))
    ELSE IF mt >= 90 /\ mt < 95 THEN Run("decode_ssr_pbias_ex", TRUE)
    ELSE IF mt = 95 THEN Run("decode_ssr_trop", TRUE)
    ELSE IF mt >= 96 /\ mt < 101 THEN Run("decode_ssr_iono", TRUE)
    ELSE IF mt \in {3, 2000} THEN Run("decode_integrity_min", FALSE)
    ELSE IF mt \in {4, 2005} THEN Run("decode_integrity_ext", FALSE)
    ELSE IF mt \in {5, 2006} THEN Run("decode_integrity_ext_sis_local", FALSE)
    ELSE IF mt \in {6, 2007} THEN Run("decode_integrity_pri_service_area", FALSE)
    ELSE IF mt = 2008 THEN Run("decode_integrity_ext_service_area", FALSE)
    ELSE IF mt \in {7, 2051} THEN Run("decode_integrity_quality", FALSE)
    ELSE IF mt \in {8, 2091} THEN Run("decode_integrity_cnr_acg", FALSE)
    ELSE IF mt = 2071 THEN Run("decode_integrity_vmap", FALSE)
    ELSE IF mt = 2072 THEN Run("decode_integrity_mmap", FALSE)
    ELSE IF mt \in {11, 2011} THEN Run("decode_integrity_ssr", FALSE)
    ELSE IF mt = 12 THEN Run("decode_integrity_ssr", FALSE)
    ELSE IF mt = 13 THEN Run("decode_integrity_ssr", FALSE)
    ELSE IF mt = 54 THEN Run("decode_sc134_test_header", TRUE)
    ELSE Run("none", FALSE)

\* the decoders that start with get_ssr_sys(self.msgtype)
SsrDecoders ==
    {"decode_cssr_orb", "decode_cssr_clk", "decode_cssr_cbias", "decode_cssr_pbias",
     "decode_cssr_comb", "decode_cssr_ura", "decode_cssr_hclk"}

\* i = 24; the 12 bits of the message type
HeadBits == 24 + 12

\* decode(msg) with scanmode False and a message type outside mt_skip: the
\* decoder run, the constellation it decodes for, the offset end just past
\* the last field it read when it reads used bits, and the offset i returned
decode(mt, mask_pbias, used, sysref) ==
    LET b == Dispatch(mt, mask_pbias)
    IN  [dec |-> b.dec,
         sys |-> IF b.dec \in SsrDecoders THEN get_ssr_sys(mt, sysref) ELSE "n/a",
         end |-> IF b.dec = "none" THEN HeadBits ELSE HeadBits + used,
         i |-> IF b.takes THEN HeadBits + used ELSE HeadBits]

\* every 12-bit message type; a decoder reads 8 or 40 bits
DecodeArgs ==
    { [msgtype |-> mt, mask_pbias |-> m, used |-> u] :
        mt \in 0..4095, m \in BOOLEAN, u \in {8, 40} }

call_decode ==
    /\ pcP = "decode"
    /\ ret' = decode(arg.msgtype, arg.mask_pbias, arg.used, "NONE")
    /\ pcP' = "decoded"
    /\ UNCHANGED <<notFn, arg>>

InitDecode ==
    /\ arg \in DecodeArgs
    /\ ret = <<>> /\ pcP = "decode"
    /\ rtcm_init /\ NoFrame /\ NoSat /\ NoMsm

NextDecode == call_decode

SpecDecode == InitDecode /\ [][NextDecode]_vars

\* the standard message type (of GPS) of a correction kind that has one
StdType(kind) ==
    CASE kind = "ORBIT"  -> 1057
      [] kind = "CLOCK"  -> 1058
      [] kind = "CBIAS"  -> 1059
      [] kind = "OC"     -> 1060
      [] kind = "URA"    -> 1061
      [] kind = "HCLOCK" -> 1062
      [] kind = "PBIAS"  -> 1265
      [] OTHER           -> 0

----------------------------------------------------------------------------
(* C14: for every message type decode handles, the first element of its    *)
(* result is the bit offset just past the last field the decoder of the    *)
(* message consumed.                                                       *)

C14_ReturnsOffsetPastDecoder ==
    (pcP = "decoded" /\ ret.dec # "none") => ret.i = ret.end

----------------------------------------------------------------------------
(* C15: for every message type mt of ssrtype_t, decode runs the correction *)
(* decoder it runs for the standard message type of the kind the table     *)
(* gives for mt, with the constellation the table gives for mt (type 63 is *)
(* decoded as a BeiDou orbit correction, like 1258).                       *)

C15_TableDrivesDispatch ==
    (pcP = "decoded" /\ ~ arg.mask_pbias /\ arg.msgtype \in DOMAIN ssrtype_t
        /\ StdType(ssrtype_t[arg.msgtype][2]) # 0)
        => /\ ret.dec = Dispatch(StdType(ssrtype_t[arg.msgtype][2]), FALSE).dec
           /\ ret.sys = ssrtype_t[arg.msgtype][1]

----------------------------------------------------------------------------
(* C16: for each base type B of 1057, 1063, 1240, 1246, 1252, 1258 and     *)
(* each offset k in 0..6 that ssrtype accepts, ssrtype(B+k),               *)
(* get_ssr_sys(B+k) and the dispatch in decode agree on the constellation  *)
(* of message type B+k.                                                    *)

C16_OneConstellationPerType ==
    (pcP = "decoded" /\ ssrtype(arg.msgtype)[2] # 0)
        => /\ get_ssr_sys(arg.msgtype, "NONE") = ssrtype(arg.msgtype)[1]
           /\ ret.dec \in SsrDecoders => ret.sys = ssrtype(arg.msgtype)[1]

----------------------------------------------------------------------------
(* rtcm.decode_ssr_trop *)

\* The tropospheric messages fed in: the epoch of the header, the grid id,
\* the residual indicator, the raw fields of the model (ct00h for the
\* coefficients, dah and daw for the two mapping functions; the other
\* coefficients are decoded the same way and left out), and the residual
\* part: offset, number of grid points, the widths n and m and the raw
\* residuals.  A decoded value is kept in units of its field's scale,
\* without the constant the code adds to it.
TropMsgs ==
    { [t |-> t, gid |-> g, rmi |-> FALSE, ct00h |-> c, dah |-> a, daw |-> a,
       ofst |-> 0, ng |-> 0, n |-> 0, m |-> 0, rh_ |-> 0, rw_ |-> 0] :
        t \in Times, g \in Nets, c \in {0, 5}, a \in {0, -3} }
    \cup
    { [t |-> t, gid |-> g, rmi |-> TRUE, ct00h |-> c, dah |-> 0, daw |-> 0,
       ofst |-> o, ng |-> ng, n |-> n, m |-> m,
       rh_ |-> IF n > 0 THEN 3 ELSE 0, rw_ |-> IF m > 0 THEN -1 ELSE 0] :
        t \in Times, g \in Nets, c \in {0, 5},
        o \in {0, 1}, ng \in {0, 2}, n \in {0, 4}, m \in {0, 4} }

\* rh = np.zeros(ofst+ng) if n > 0 else None, then rh[k] for k in
\* range(ofst, ofst+ng)
TropResidual(ofst_, ng, n, raw) ==
    IF n > 0
    THEN [k \in 1..(ofst_ + ng) |-> IF k > ofst_ THEN sval(raw, n, 0) ELSE Num(0, 0, 0)]
    ELSE "None"

\* rh, rw, ng and ofst are bound only inside "if rmi:"; without it the
\* assignment self.lc[inet].dth = rh raises UnboundLocalError, after ct,
\* maph and mapw were assigned
TropStore(l, x) ==
    LET l1 == [l EXCEPT !["ct"] = sval(x.ct00h, 13, 0),
                        !["maph"] = sval(x.dah, 11, 0),
                        !["mapw"] = sval(x.daw, 13, 0)]
    IN  IF x.rmi
        THEN [l1 EXCEPT !["dth"] = TropResidual(x.ofst, x.ng, x.n, x.rh_),
                        !["dtw"] = TropResidual(x.ofst, x.ng, x.m, x.rw_),
                        !["ng"] = x.ng,
                        !["ofst"] = x.ofst]
        ELSE l1

decode_ssr_trop(x) ==
    /\ ntrop < MaxTrop
    /\ time' = x.t
    /\ lct' = [lct EXCEPT ![x.gid] = TropStore(@, x)]
    /\ arg' = x
    /\ ret' = IF x.rmi THEN "ok" ELSE "UnboundLocalError"
    /\ ntrop' = ntrop + 1
    /\ UNCHANGED <<lc, mi, inet, sat_n, sat_b, dclk_n, iyaw, iexpb, udi, iodssr_c,
                   call, ncalls, frameVars, satVars, msmVars, integVars, pcP>>

InitTrop == rtcm_init /\ NoFrame /\ NoSat /\ NoMsm /\ NoCall

NextTrop == \E x \in TropMsgs : decode_ssr_trop(x)

SpecTrop == InitTrop /\ [][NextTrop]_vars

----------------------------------------------------------------------------
(* C17: decode_ssr_trop decodes a tropospheric message whose residual      *)
(* indicator is 0 without error: it stores the model coefficients (ct,     *)
(* maph, mapw) under the grid id of the message and records no grid-point  *)
(* residuals for that grid.                                                *)

C17_TropWithoutResiduals ==
    [][ (ntrop' = ntrop + 1 /\ ~ arg'.rmi)
        => /\ ret' = "ok"
           /\ lct'[arg'.gid]["ct"] = sval(arg'.ct00h, 13, 0)
           /\ lct'[arg'.gid]["maph"] = sval(arg'.dah, 11, 0)
           /\ lct'[arg'.gid]["mapw"] = sval(arg'.daw, 13, 0)
           /\ lct'[arg'.gid]["dth"] = "None"
           /\ lct'[arg'.gid]["dtw"] = "None"
      ]_vars

----------------------------------------------------------------------------
(* rtcme.encode_cssr_pbias, fed with the corrections the decoder holds *)

\* encode_head writes self.iyaw and self.iexpb for subtype SSR_PBIAS
\* (types 85-89); encode_cssr_pbias then writes one record per satellite of
\* lc[inet].pbias: its id, nsig = len(pbias[sat]), the yaw/yaw-rate pair
\* "if sat in self.lc[inet].yaw", and the signals.  The message is kept as
\* the fields written, not as bits.
PbiasMessage(l, iyaw_, iexpb_) ==
    [iyaw |-> iyaw_, iexpb |-> iexpb_,
     recs |-> [s \in DOMAIN l.pbias |->
                 [nsig |-> Cardinality(DOMAIN l.pbias[s]),
                  yaw |-> s \in DOMAIN l.yaw]]]

\* the bits encode_cssr_pbias writes for one satellite record of SSR_PBIAS
PbiasBitsWritten(rec) ==
    6 + 5 + (IF rec.yaw THEN 9 + 8 ELSE 0) + rec.nsig * (5 + 1 + 4 + 20)

\* the bits decode_cssr_pbias reads for that record when it starts at the
\* record's first bit: the pair is read if v['iyaw'], the header flag
PbiasBitsRead(w, rec) ==
    6 + 5 + (IF w.iyaw THEN 9 + 8 ELSE 0) + rec.nsig * (5 + 1 + 4 + 20)

encode_cssr_pbias ==
    /\ pcP = "off"
    /\ ret' = PbiasMessage(lc[inet], iyaw, iexpb)
    /\ pcP' = "encoded"
    /\ UNCHANGED <<ssrVars, frameVars, satVars, msmVars, tropVars, integVars, arg>>

\* decode_head under subtype SSR_PBIAS_EX: the dictionary v is created only
\* "if self.subtype not in [sRTCM.SSR_PBIAS_EX]", so "v['iodssr'] = iodssr"
\* raises UnboundLocalError; self.tow and self.time are assigned before it
HeadRaises(subtype) == subtype = "SSR_PBIAS_EX"

\* the body of decode_ssr_pbias_ex behind the header: nothing if the property
\* id differs (return -1), else wl is emptied and gets one indicator, of
\* epoch t, for every signal of every satellite of lc[inet].pbias
PbiasExStore(l, id, t) ==
    IF id # iexpb THEN l
    ELSE [l EXCEPT !.wl = [s \in DOMAIN l.pbias |->
                              [g \in DOMAIN l.pbias[s] |-> t]]]

\* decode sets subtype SSR_PBIAS_EX for the types 90-94 and calls
\* decode_ssr_pbias_ex(msg, i)
decode_ssr_pbias_ex(n, t, id) ==
    /\ ncalls < MaxCalls
    /\ time' = t
    /\ lc' = IF HeadRaises("SSR_PBIAS_EX") THEN lc
             ELSE [lc EXCEPT ![n] = PbiasExStore(@, id, t)]
    /\ call' = [kind |-> "pbias_ex", inet |-> n, sats |-> <<>>, iexpb |-> id,
                res |-> IF HeadRaises("SSR_PBIAS_EX") THEN "error"
                        ELSE IF id # iexpb THEN "-1" ELSE "ok"]
    /\ ncalls' = ncalls + 1
    /\ UNCHANGED <<notSSR, mi, inet, sat_n, sat_b, dclk_n, iyaw, iexpb, udi, iodssr_c>>

InitPbias == rtcm_init /\ NoFrame /\ NoSat /\ NoMsm /\ NoCall

NextPbias ==
    \/ \E n \in Nets, t \in Times, h \in PbiasHeads, b \in BiasBodies :
          decode_cssr_pbias(n, t, h, b)
    \/ \E n \in Nets, t \in Times, id \in {0, 1} : decode_ssr_pbias_ex(n, t, id)
    \/ encode_cssr_pbias

SpecPbias == InitPbias /\ [][NextPbias]_vars

----------------------------------------------------------------------------
(* C18: in a phase-bias message of subtype SSR_PBIAS (types 85-89) a       *)
(* satellite record carries the yaw/yaw-rate pair exactly when the yaw     *)
(* flag of the header is set; encode_cssr_pbias and decode_cssr_pbias both *)
(* follow the rule, so the decoder reads for each satellite exactly the    *)
(* bits the encoder wrote.                                                 *)

C18_YawPairFollowsFlag ==
    pcP = "encoded"
    => \A s \in DOMAIN ret.recs :
         /\ ret.recs[s].yaw <=> ret.iyaw
         /\ PbiasBitsRead(ret, ret.recs[s]) = PbiasBitsWritten(ret.recs[s])

----------------------------------------------------------------------------
(* The multi-message status of one correction kind of one network *)

\* Empty until a message of the kind was decoded to its end for the network
\* (its bit of cstat); from then on the flag of the last message, which the
\* decoders keep in self.mi: Partial if it is set, Complete if not
Status(n, k) ==
    IF k \notin lc[n].cstat THEN "Empty"
    ELSE IF mi THEN "Partial" ELSE "Complete"

----------------------------------------------------------------------------
(* C19: the Partial/Complete status that follows the multi-message flag of *)
(* the last message is kept per (network id, correction kind): decoding a  *)
(* message of one kind changes the status of no other kind and of no other *)
(* network id.                                                             *)

C19_StatusPerNetworkAndKind ==
    [][ (Decoded /\ call'.res = "ok")
        => \A n \in Nets, k \in Kinds :
             (n # call'.inet \/ k \notin KindsOf(call'.kind))
             => Status(n, k)' = Status(n, k)
      ]_vars

----------------------------------------------------------------------------
(* C20: decoding an orbit message, whether or not it empties the orbit     *)
(* maps, leaves the clock, high-rate clock, code-bias, phase-bias and URA  *)
(* maps and their cached epochs unchanged for every network id, and leaves *)
(* all correction state of every other network id unchanged.               *)

C20_OrbitTouchesOrbitOnly ==
    [][ (Decoded /\ call'.kind = "orb")
        => /\ \A n \in Nets, k \in Kinds \ {"ORBIT"} :
                 KindState(lc'[n], k) = KindState(lc[n], k)
           /\ \A n \in Nets \ {call'.inet} : lc'[n] = lc[n]
      ]_vars

\* network 0 holds the clock correction of satellite 1 from epoch 1, and the
\* orbit message decoded last, of epoch 2 for network 0, found an older cached
\* orbit epoch, emptied the orbit maps of network 0 and filled them
C20_Witness ==
    /\ call.kind = "orb" /\ call.res = "ok" /\ call.inet = 0 /\ time = 2
    /\ lc[0].t0s["ORBIT"] = 2 /\ DOMAIN lc[0].dorb = Range(call.sats)
    /\ DOMAIN lc[0].dclk = {1} /\ lc[0].t0s["CLOCK"] = 1
    /\ lc[1] = local_corr

----------------------------------------------------------------------------
(* Frames over the whole range of the 10-bit length field *)

\* the largest payload length the length field holds (len_ & 0x3ff)
MaxLen == 1023

\* payload lengths at the ends of the range and around the carry into the
\* upper byte of the length field
LongLens == {MinLen, 255, 256, 511, MaxLen}

LongFrames ==
    { [k |-> k, msg |-> [i \in 1..k |-> 85] \o <<0, 0, 0>> \o Payload(seed, L) \o <<0, 0, 0>>,
       L |-> L]
        : k \in 0..MaxOffset, seed \in 0..MaxSeed, L \in LongLens }

\* rtcm.sync(buff, k)
sync(buff, k) == buff[k + 1] = 211

InitFrameLong ==
    /\ \E f \in LongFrames : buf = f.msg /\ fk = f.k
    /\ enc_len = 0 /\ dec_len = 0 /\ dec_dlen = 0
    /\ acc = "none" /\ maxl = 0 /\ flipped = 0 /\ pcF = "raw"
    /\ rtcm_init /\ NoSat /\ NoMsm /\ NoCall

\* checksum is called without maxlen, or with a maxlen past the frame
NextFrameLong ==
    \/ set_sync
    \/ set_len
    \/ set_checksum
    \/ \E m \in {0, Len(buf) + 1} : call_checksum(m)

SpecFrameLong == InitFrameLong /\ [][NextFrameLong]_vars

----------------------------------------------------------------------------
(* C21: for every payload length L with 6 <= L <= 1023 and every payload,  *)
(* a frame built at offset k with set_sync, set_len(L) and set_checksum is *)
(* accepted by sync and by checksum at offset k, and checksum then reports *)
(* len = L and dlen = L + 6.                                               *)

C21_FramedIsAccepted ==
    (pcF = "checked" /\ enc_len >= MinLen /\ enc_len <= MaxLen)
    => /\ sync(buf, fk)
       /\ acc = TRUE
       /\ dec_len = enc_len
       /\ dec_dlen = enc_len + 6

\* a frame with the longest payload, built at offset 1, was checked
C21_Witness ==
    /\ pcF = "checked" /\ enc_len = MaxLen /\ fk = 1
    /\ acc = TRUE /\ dec_len = MaxLen

----------------------------------------------------------------------------
(* rtcm.decode_msm: the bits read, and what decode does with the result *)

\* the header: 'u12u30u1u3' with i += 53, 'u2u2u1u3', 'u64u32'
msm_head_bits == 53 + 8 + 96

\* the satellite block without the extended information of MSM5 and MSM7
msm_sat_bits_short(msm, nsat) ==
    IF msm >= 1 /\ msm <= 3 THEN nsat * 10 ELSE nsat * 8 + nsat * 10

\* the satellite part: the loops over range(self.nsat)
msm_sat_bits(msm, nsat) ==
    IF msm >= 1 /\ msm <= 3 THEN nsat * 10
    ELSE nsat * 8
         + (IF msm = 5 \/ msm = 7 THEN nsat * 4 ELSE 0)
         + nsat * 10
         + (IF msm = 5 \/ msm = 7 THEN nsat * 14 ELSE 0)

\* the signal part: the loops over range(ncell)
msm_sig_bits(msm, ncell) ==
    (IF msm # 2 THEN ncell * (IF msm < 6 THEN 15 ELSE 20) ELSE 0)
    + (IF msm > 1
       THEN ncell * (IF msm < 6 THEN 22 ELSE 24)
            + ncell * (IF msm < 6 THEN 4 ELSE 10)
            + ncell * 1
       ELSE 0)
    + (IF msm > 3 THEN ncell * (IF msm < 6 THEN 6 ELSE 10) ELSE 0)
    + (IF msm = 5 \/ msm = 7 THEN ncell * 15 ELSE 0)

\* what decode_msm(msg, i) returns: -1 if nsat*nsig > 64, "return -1" coming
\* after the header was read, else the pair (i, obs); i counts from the bit
\* decode_msm was entered at
msm_return(msm, nsat, nsig, ncell) ==
    IF nsat * nsig > 64 THEN [pair |-> FALSE, i |-> -1, obs |-> "None"]
    ELSE [pair |-> TRUE,
          i |-> msm_head_bits + nsat * nsig + msm_sat_bits(msm, nsat)
                  + msm_sig_bits(msm, ncell),
          obs |-> "Obs"]

\* decode: "i, obs = self.decode_msm(msg, i)"; an int does not unpack
msm_unpack(r) ==
    IF r.pair THEN [raised |-> "no", i |-> r.i, obs |-> r.obs]
    ELSE [raised |-> "TypeError", i |-> 0, obs |-> "None"]

\* The variant, the numbers of satellites and signals of the masks and the
\* number of cells of the cell masks
MsmShapes ==
    { [msm |-> t, nsat |-> a, nsig |-> g, ncell |-> c] :
        t \in 1..7, a \in {0, 1, 2, 3, 8, 13, 64}, g \in {0, 1, 2, 5, 8, 32},
        c \in {0, 1, 2, 64} }

\* the cells are among the nsat*nsig bits of the cell masks; above 64 the
\* cell masks are not read
MsmShape(x) ==
    IF x.nsat * x.nsig > 64 THEN x.ncell = 0 ELSE x.ncell <= x.nsat * x.nsig

call_decode_msm ==
    /\ pcP = "msm"
    /\ ret' = [msm |-> msm_return(arg.msm, arg.nsat, arg.nsig, arg.ncell),
               decode |-> msm_unpack(msm_return(arg.msm, arg.nsat, arg.nsig, arg.ncell)),
               lock |-> lock]
    /\ pcP' = "msmed"
    /\ UNCHANGED <<notFn, arg>>

InitMsmBits ==
    /\ arg \in {x \in MsmShapes : MsmShape(x)}
    /\ ret = <<>> /\ pcP = "msm"
    /\ rtcm_init /\ NoFrame /\ NoSat /\ NoMsm

NextMsmBits == call_decode_msm

SpecMsmBits == InitMsmBits /\ [][NextMsmBits]_vars

----------------------------------------------------------------------------
(* C22: the number of bits decode_msm consumes is fixed by the variant and *)
(* the mask counts alone: 157 header bits, nsat*nsig cell-mask bits, a     *)
(* satellite block of 10 bits per satellite for MSM1-3, 18 for MSM4 and    *)
(* MSM6, 36 for MSM5 and MSM7, and a signal block of 15, 27, 42, 48, 63,   *)
(* 65 and 80 bits per cell for MSM1 to MSM7.                               *)

C22_MsmBitsByVariant ==
    (pcP = "msmed" /\ ret.msm.pair)
    => LET perSat == <<10, 10, 10, 18, 36, 18, 36>>
           perCell == <<15, 27, 42, 48, 63, 65, 80>>
       IN  ret.msm.i = 157 + arg.nsat * arg.nsig + arg.nsat * perSat[arg.msm]
                         + arg.ncell * perCell[arg.msm]

\* an MSM7 message with 8 satellites, 8 signals and all 64 cells
C22_Witness ==
    /\ pcP = "msmed" /\ ret.msm.pair
    /\ arg.msm = 7 /\ arg.nsat = 8 /\ arg.nsig = 8 /\ arg.ncell = 64
    /\ ret.msm.i = 157 + 64 + 8 * 36 + 64 * 80

----------------------------------------------------------------------------
(* C28: when the masks of an MSM message give nsat*nsig > 64, decode       *)
(* rejects the message without raising: it returns normally with no        *)
(* observation block and leaves the lock-time cache unchanged.             *)

C28_OversizeMsmRejected ==
    (pcP = "msmed" /\ arg.nsat * arg.nsig > 64)
    => /\ ret.decode.raised = "no"
       /\ ret.decode.obs = "None"
       /\ lock = ret.lock

----------------------------------------------------------------------------
(* rtcme.encode_sat and rtcm.decode_sat: the satellite id of an SSR record *)

\* encode_sat(msg, i, sat); igs: self.msgtype == 4076.  pack_into refuses a
\* value that does not fit the field.
encode_sat(igs, sat) ==
    LET sys == sat2prn(sat)[1]
        prn == sat2prn(sat)[2]
        blen == IF igs THEN 6 ELSE IF sys = "QZS" THEN 4 ELSE 6
        svid == IF ~ igs /\ sys = "QZS" THEN prn - 192 ELSE prn
    IN  [blen |-> blen, svid |-> svid, raised |-> svid >= Pow2(blen)]

\* svid2sat(sys, svid): uGNSS of gnss.py has no MINPRNQZS and no MINPRNSBS,
\* so the QZS and SBS branches raise AttributeError
svid2sat(sys, svid) ==
    IF sys \in {"QZS", "SBS"} THEN "AttributeError" ELSE prn2sat(sys, svid)

\* decode_sat(msg, i, sys) on the field e that encode_sat wrote at i: the
\* first blen bits from i on, the bits behind the field being 0
decode_sat(igs, sys, e) ==
    LET blen == IF igs THEN 6
                ELSE IF sys = "GLO" THEN 5
                ELSE IF sys = "QZS" THEN 4
                ELSE 6
        svid == IF blen <= e.blen THEN e.svid \div Pow2(e.blen - blen)
                ELSE e.svid * Pow2(blen - e.blen)
    IN  [blen |-> blen, svid |-> svid, sat |-> svid2sat(sys, svid)]

call_encode_sat ==
    /\ pcP = "sat"
    /\ ret' = [enc |-> encode_sat(arg.igs, arg.sat)]
    /\ pcP' = "satenc"
    /\ UNCHANGED <<notFn, arg>>

\* the decoder takes the constellation from the message type, which is that
\* of the satellite encoded
call_decode_sat ==
    /\ pcP = "satenc"
    /\ ~ ret.enc.raised
    /\ ret' = [enc |-> ret.enc,
               dec |-> decode_sat(arg.igs, sat2prn(arg.sat)[1], ret.enc)]
    /\ pcP' = "satdec"
    /\ UNCHANGED <<notFn, arg>>

InitSatId ==
    /\ arg \in [igs : BOOLEAN, sat : 1..MAXSAT]
    /\ ret = <<>> /\ pcP = "sat"
    /\ rtcm_init /\ NoFrame /\ NoSat /\ NoMsm

NextSatId == call_encode_sat \/ call_decode_sat

SpecSatId == InitSatId /\ [][NextSatId]_vars

----------------------------------------------------------------------------
(* C23: for every satellite of every constellation encode_sat writes the   *)
(* satellite id with the bit width and the PRN offset that decode_sat      *)
(* applies for the constellation and message type: decode_sat applied to   *)
(* the output of encode_sat returns the satellite, and both advance the    *)
(* bit position by the same amount.                                        *)

C23_SatIdRoundTrip ==
    /\ pcP = "satenc" => ~ ret.enc.raised
    /\ pcP = "satdec" => /\ ret.dec.sat = arg.sat
                         /\ ret.dec.blen = ret.enc.blen

----------------------------------------------------------------------------
(* rtcm.decode_glo_eph, decode_bds_eph, decode_irn_eph: the scaled fields *)

\* raw * 2^-e, kept as the pair (for GLONASS the factor 1e3 comes on top)
Scaled(raw, e) == [raw |-> raw, e |-> e]

\* geph.pos, geph.vel, geph.acc from the fields x, xd, xdd, y, yd, ydd, z,
\* zd, zdd of the message
decode_glo_eph(f) ==
    [pos |-> <<Scaled(f.x, 11), Scaled(f.x, 11), Scaled(f.x, 11)>>,
     vel |-> <<Scaled(f.xd, 20), Scaled(f.xd, 20), Scaled(f.xd, 20)>>,
     acc |-> <<Scaled(f.xdd, 30), Scaled(f.xdd, 30), Scaled(f.xdd, 30)>>]

\* eph.af2, eph.af1, eph.af0 of BeiDou
decode_bds_eph(f) ==
    [af2 |-> Scaled(f.af0, 66), af1 |-> Scaled(f.af1, 50), af0 |-> Scaled(f.af0, 33)]

\* eph.af0, eph.af1, eph.af2 of NavIC
decode_irn_eph(f) ==
    [af0 |-> Scaled(f.af0, 31), af1 |-> Scaled(f.af1, 43), af2 |-> Scaled(f.af0, 55)]

\* the raw fields of the ephemeris messages fed in
GloFields ==
    { [sys |-> "GLO", x |-> p[1], y |-> p[2], z |-> p[3],
       xd |-> v[1], yd |-> v[2], zd |-> v[3],
       xdd |-> a[1], ydd |-> a[2], zdd |-> a[3]] :
        p \in {-1, 2} \X {-1, 2} \X {-1, 2},
        v \in {0, 3} \X {0, 3} \X {0, 3},
        a \in {<<0, 0, 0>>, <<1, 0, -1>>} }

ClockFields(sys) ==
    { [sys |-> sys, af0 |-> a, af1 |-> b, af2 |-> c] :
        a \in {-1, 0, 5}, b \in {-1, 0, 5}, c \in {-1, 0, 5} }

call_decode_glo_eph ==
    /\ pcP = "eph" /\ arg.sys = "GLO"
    /\ ret' = decode_glo_eph(arg)
    /\ pcP' = "ephed"
    /\ UNCHANGED <<notFn, arg>>

call_decode_bds_eph ==
    /\ pcP = "eph" /\ arg.sys = "BDS"
    /\ ret' = decode_bds_eph(arg)
    /\ pcP' = "ephed"
    /\ UNCHANGED <<notFn, arg>>

call_decode_irn_eph ==
    /\ pcP = "eph" /\ arg.sys = "IRN"
    /\ ret' = decode_irn_eph(arg)
    /\ pcP' = "ephed"
    /\ UNCHANGED <<notFn, arg>>

InitEph ==
    /\ arg \in GloFields \cup ClockFields("BDS") \cup ClockFields("IRN")
    /\ ret = <<>> /\ pcP = "eph"
    /\ rtcm_init /\ NoFrame /\ NoSat /\ NoMsm

NextEph == call_decode_glo_eph \/ call_decode_bds_eph \/ call_decode_irn_eph

SpecEph == InitEph /\ [][NextEph]_vars

----------------------------------------------------------------------------
(* C24: every field of a decoded ephemeris record is its own raw message   *)
(* field times its scale factor: the y and z components of the GLONASS     *)
(* position, velocity and acceleration come from the y and z fields, and   *)
(* the BeiDou and NavIC clock term af2 comes from the af2 field.           *)

C24_FieldFromOwnRaw ==
    pcP = "ephed"
    => IF arg.sys = "GLO"
       THEN /\ ret.pos = <<Scaled(arg.x, 11), Scaled(arg.y, 11), Scaled(arg.z, 11)>>
            /\ ret.vel = <<Scaled(arg.xd, 20), Scaled(arg.yd, 20), Scaled(arg.zd, 20)>>
            /\ ret.acc = <<Scaled(arg.xdd, 30), Scaled(arg.ydd, 30), Scaled(arg.zdd, 30)>>
       ELSE ret.af2 = Scaled(arg.af2, IF arg.sys = "BDS" THEN 66 ELSE 55)

----------------------------------------------------------------------------
(* C25: after decode has processed an extended phase-bias message (types   *)
(* 90-94) whose property id equals the one of the phase-bias header        *)
(* decoded before it, the wide-lane indicator map wl of the network has    *)
(* exactly one entry for every (satellite, signal) pair of the phase-bias  *)
(* map of that network.                                                    *)

C25_WideLanePerBias ==
    [][ ( /\ Decoded
          /\ call.kind = "pbias" /\ call.res = "ok"
          /\ call'.kind = "pbias_ex" /\ call'.iexpb = iexpb )
        => LET l == lc'[call'.inet]
           IN  /\ call'.res = "ok"
               /\ DOMAIN l.wl = DOMAIN l.pbias
               /\ \A s \in DOMAIN l.pbias : DOMAIN l.wl[s] = DOMAIN l.pbias[s]
      ]_vars

----------------------------------------------------------------------------
(* C26: after a combined orbit and clock message of epoch T was decoded    *)
(* for a network, a clock message of the same epoch T for that network     *)
(* adds its satellites to the clock corrections the combined message       *)
(* stored instead of clearing them.                                        *)

C26_ClockAfterCombined ==
    [][ ( /\ Decoded
          /\ call.kind = "comb" /\ call.res = "ok"
          /\ call'.kind = "clk" /\ call'.res = "ok"
          /\ call'.inet = call.inet
          /\ time' = time )
        => LET l == lc'[call'.inet]
               both == Range(call.sats) \cup Range(call'.sats)
           IN  both \subseteq DOMAIN l.dclk \cap DOMAIN l.ddclk \cap DOMAIN l.dddclk
      ]_vars

----------------------------------------------------------------------------
(* rtcme.encode_integrity_ssr and rtcm.decode_integrity_ssr *)

\* Integrity.sys_tbl and sys_r_tbl: the bit of a constellation in mask_sys
sys_tbl == <<"GPS", "GLO", "GAL", "BDS", "QZS", "IRN">>

sys_r_tbl(sys) == (CHOOSE k \in 1..Len(sys_tbl) : sys_tbl[k] = sys) - 1

\* decode_mask: the indices of the set bits in ascending order
RECURSIVE Ascending(_)
Ascending(S) ==
    IF S = {} THEN <<>>
    ELSE LET x == CHOOSE y \in S : \A z \in S : y <= z
         IN  <<x>> \o Ascending(S \ {x})

\* a dictionary is a sequence of <<key, value>> pairs in insertion order
Keys(dict) == [k \in 1..Len(dict) |-> dict[k][1]]

Values(dict) == [k \in 1..Len(dict) |-> dict[k][2]]

Lookup(dict, key) == dict[CHOOSE k \in 1..Len(dict) : dict[k][1] = key][2]

AsMap(dict) == [key \in Range(Keys(dict)) |-> Lookup(dict, key)]

\* the svid of a satellite in mask_sat
IntegSvid(sat) ==
    sat2prn(sat)[2] - (IF sat2prn(sat)[1] = "QZS" THEN 192 ELSE 0)

\* encode_integrity_ssr: mask_sys from the keys of iod_sys, then one block
\* per key of iod_sys in the order of the dictionary: the satellite mask,
\* the issue of data and the flags in the order of flag[sys].values()
encode_integrity_ssr(st) ==
    [mask_sys |-> {sys_r_tbl(Keys(st.iod_sys)[k]) : k \in 1..Len(st.iod_sys)},
     blocks |-> [k \in 1..Len(st.iod_sys) |->
                   LET flag == Lookup(st.flag, st.iod_sys[k][1])
                   IN  [mask_sat |-> {IntegSvid(Keys(flag)[j]) : j \in 1..Len(flag)},
                        iod |-> st.iod_sys[k][2],
                        flags |-> Values(flag)]]]

\* decode_integrity_ssr: the constellations of mask_sys in ascending order,
\* for each the next block of the message; its flags go to the satellites
\* of its mask in ascending order
decode_integrity_ssr(m) ==
    LET sys_t == Ascending(m.mask_sys)
        sysOf(k) == sys_tbl[sys_t[k] + 1]
        flagOf(k) ==
            LET svid_t == Ascending(m.blocks[k].mask_sat)
            IN  [j \in 1..Len(svid_t) |->
                   <<prn2sat(sysOf(k), svid_t[j] + (IF sysOf(k) = "QZS" THEN 192 ELSE 0)),
                     m.blocks[k].flags[j]>>]
    IN  [iod_sys |-> [k \in 1..Len(sys_t) |-> <<sysOf(k), m.blocks[k].iod>>],
         flag |-> [k \in 1..Len(sys_t) |-> <<sysOf(k), flagOf(k)>>]]

\* The states encoded: one or two of three constellations in either order of
\* insertion, each with the issue of data of its table position and with one
\* or two satellites in either order, the flag of a satellite being its PRN
IntegOrders ==
    { <<a>> : a \in {"GPS", "GLO", "GAL"} }
    \cup { o \in {"GPS", "GLO", "GAL"} \X {"GPS", "GLO", "GAL"} : o[1] # o[2] }

IntegSats == {<<1>>, <<2>>, <<1, 2>>, <<2, 1>>}

IntegState(o, prns) ==
    [iod_sys |-> [k \in 1..Len(o) |-> <<o[k], sys_r_tbl(o[k]) + 1>>],
     flag |-> [k \in 1..Len(o) |->
                 <<o[k], [j \in 1..Len(prns[k]) |->
                            <<prn2sat(o[k], prns[k][j]), prns[k][j]>>]>>]]

IntegStates ==
    UNION { { IntegState(o, prns) : prns \in [1..Len(o) -> IntegSats] } : o \in IntegOrders }

call_encode_integrity_ssr ==
    /\ pcP = "integ"
    /\ ret' = [msg |-> encode_integrity_ssr(arg)]
    /\ pcP' = "integenc"
    /\ UNCHANGED <<notFn, arg>>

call_decode_integrity_ssr ==
    /\ pcP = "integenc"
    /\ ret' = [msg |-> ret.msg, integ |-> decode_integrity_ssr(ret.msg)]
    /\ pcP' = "integdec"
    /\ UNCHANGED <<notFn, arg>>

InitIntegSsr ==
    /\ arg \in IntegStates
    /\ ret = <<>> /\ pcP = "integ"
    /\ rtcm_init /\ NoFrame /\ NoSat /\ NoMsm

NextIntegSsr == call_encode_integrity_ssr \/ call_decode_integrity_ssr

SpecIntegSsr == InitIntegSsr /\ [][NextIntegSsr]_vars

----------------------------------------------------------------------------
(* C27: decode_integrity_ssr applied to the output of encode_integrity_ssr *)
(* reproduces the issue of data of each constellation and the integrity    *)
(* flag of each satellite of the encoded state, whatever the order in      *)
(* which constellations and satellites were inserted into its dictionaries.*)

C27_IntegrityRoundTrip ==
    pcP = "integdec"
    => /\ AsMap(ret.integ.iod_sys) = AsMap(arg.iod_sys)
       /\ \A sys \in Range(Keys(arg.flag)) :
             AsMap(Lookup(ret.integ.flag, sys)) = AsMap(Lookup(arg.flag, sys))

----------------------------------------------------------------------------
(* rtcm.decode_integrity_min *)

\* The minimum integrity messages fed in: the bits set in the 16-bit
\* constellation mask (bit 6 has no entry in Integrity.sys_tbl) and the issue
\* of data, which stands for all the values the message carries for a
\* constellation
IntegMsgs == { [mask_sys |-> m, iod |-> d] : m \in SUBSET {0, 2, 5, 6}, d \in {1, 2} }

\* the bits of the mask that sys_tbl knows
IntegKnown(m) == {k \in m.mask_sys : k + 1 <= Len(sys_tbl)}

\* The eight dictionaries are built in locals and assigned to self.integ at
\* the end of the body of "for sys_ in sys_t": after any pass of the loop
\* they hold the constellations visited so far, and with no pass they are
\* not assigned.  sys_tbl[sys_] raises KeyError at a bit without an entry;
\* the bits come in ascending order, so the known ones have been visited.
decode_integrity_min(m) ==
    /\ ninteg < MaxInteg
    /\ integ' = IF IntegKnown(m) = {} THEN integ
                ELSE [tb \in IntegTables |->
                        [sys \in {sys_tbl[k + 1] : k \in IntegKnown(m)} |-> m.iod]]
    /\ integ_msg' = [mask_sys |-> m.mask_sys, iod |-> m.iod,
                     res |-> IF IntegKnown(m) = m.mask_sys THEN "ok" ELSE "KeyError"]
    /\ ninteg' = ninteg + 1
    /\ UNCHANGED <<ssrVars, frameVars, satVars, msmVars, fnVars, tropVars>>

InitInteg == rtcm_init /\ NoFrame /\ NoSat /\ NoMsm /\ NoCall

NextInteg == \E m \in IntegMsgs : decode_integrity_min(m)

SpecInteg == InitInteg /\ [][NextInteg]_vars

----------------------------------------------------------------------------
(* C29: after decode_integrity_min returns, the integrity tables by        *)
(* constellation (iod_sys, sts, mst, src, freq, iod_freq, ists, msts) hold *)
(* exactly the constellations named in the constellation mask of that      *)
(* message, for every mask including the empty one: no entry of an earlier *)
(* message survives.                                                       *)

C29_TablesMatchMask ==
    integ_msg.res = "ok"
    => \A tb \in IntegTables :
         DOMAIN integ[tb] = {sys_tbl[k + 1] : k \in integ_msg.mask_sys}

----------------------------------------------------------------------------
(* rtcme.ival *)

\* The values converted: NaN, or the finite value h * scl / 2, so that
\* y / scl is h halves; the halves make the ties of round() happen
IvalValues == {[kind |-> "nan", h |-> 0]}
              \cup {[kind |-> "num", h |-> h] : h \in -MaxHalf..MaxHalf}

\* the widths of the signed field the value is converted for
IvalBits == {3, 4}

\* round(h / 2) of Python: to the nearest integer, a tie to the even one
round(h) ==
    LET lo == IF h >= 0 THEN h \div 2 ELSE -((1 - h) \div 2)
    IN  IF h = 2 * lo THEN lo
        ELSE IF lo % 2 = 0 THEN lo ELSE lo + 1

\* ival(y, nbit, scl): -(1 << (nbit-1)) for NaN, round(y/scl) otherwise,
\* returned as it is
ival(y, nbit) ==
    IF y.kind = "nan" THEN -Pow2(nbit - 1) ELSE round(y.h)

call_ival ==
    /\ pcP = "ival"
    /\ ret' = [u |-> ival(arg.y, arg.nbit)]
    /\ pcP' = "ivaled"
    /\ UNCHANGED <<notFn, arg>>

InitIval ==
    /\ arg \in [y : IvalValues, nbit : IvalBits]
    /\ ret = <<>> /\ pcP = "ival"
    /\ rtcm_init /\ NoFrame /\ NoSat /\ NoMsm

NextIval == call_ival

SpecIval == InitIval /\ [][NextIval]_vars

----------------------------------------------------------------------------
(* C30: ival(y, nbit, scl) returns the not-available code -(2^(nbit-1))    *)
(* only when y is NaN; for every finite y the result lies between          *)
(* -(2^(nbit-1))+1 and 2^(nbit-1)-1, so it fits the signed field of nbit   *)
(* bits and is never taken for not-available.                              *)

C30_IvalFitsField ==
    pcP = "ivaled"
    => /\ ret.u = -Pow2(arg.nbit - 1) => arg.y.kind = "nan"
       /\ arg.y.kind = "num"
          => ret.u \in (1 - Pow2(arg.nbit - 1))..(Pow2(arg.nbit - 1) - 1)

====
